---- MODULE Spec2Model ----
(***************************************************************************)
(* GeoGuide backend: the Record Store variants (in-memory, file-backed,    *)
(* managed document store), the Blob Store variants and the API router,    *)
(* as implemented by backend/server.js (modular Node server), the older    *)
(* single-file Node server embedded in services/geminiService.ts, and the  *)
(* two PHP servers (local mode and modular).                               *)
(***************************************************************************)
EXTENDS Integers, Sequences, FiniteSets, TLC

\* ------------------------------------------------------------------ bounds
MaxClock == 1
MaxTours == 2
MaxUploads == 2
MaxRand == 1
MaxRetries == 2
MaxWatches == 4
MaxStops == 2
MaxCalls == 2

\* ------------------------------------------------------------- data model
\* A tour is a JSON object: a function from the fields it carries to values.
Fields == {"id", "title"}
FieldOrder == <<"id", "title", "updatedAt">>
ClientIds == {"0", "a"}
Titles == {"T1"}

FieldValues(f) ==
  CASE f = "id" -> ClientIds
    [] f = "title" -> Titles

AllValues == UNION {FieldValues(f) : f \in Fields}

\* Request bodies: every JSON object over the fields (a parsed body).
Bodies ==
  {b \in UNION {[D -> AllValues] : D \in SUBSET Fields} :
     \A f \in DOMAIN b : b[f] \in FieldValues(f)}

NoBody == [none |-> TRUE]

\* Date.now() as a tour carries it in createdAt / updatedAt: the numeral.
Stamp(clock) == ToString(clock)

\* Request bodies that carry the last-update timestamp, as the editor sends them.
StampedBodies == {[id |-> i, updatedAt |-> Stamp(n)] : i \in ClientIds, n \in 0..MaxClock}

\* A request body that is not parsable JSON.
BadJson == [bad |-> TRUE]

\* PHP's null: what json_decode gives for such a body.
PhpNull == [null |-> TRUE]

\* json_decode(file_get_contents('php://input'), true)
JsonDecode(raw) == IF raw = BadJson THEN PhpNull ELSE raw

\* t.id as JavaScript / PHP read it: <<>> stands for undefined / null.
IdOf(t) == IF "id" \in DOMAIN t THEN <<t["id"]>> ELSE <<>>

WithId(t, id) == [f \in DOMAIN t \cup {"id"} |-> IF f = "id" THEN id ELSE t[f]]

\* 'tour-' + Date.now()  /  'tour-' . time()
GenId(clock) == "tour-" \o ToString(clock)

\* The identifiers a request path can carry: the clients' and the generated ones.
PathIds == ClientIds \cup {GenId(n) : n \in 0..MaxClock}

\* JavaScript truthiness of tour.id: undefined and '' are falsy.
JsFalsyId(t) == IdOf(t) = <<>> \/ IdOf(t) = <<"">>

\* PHP truthiness of a string: '' and '0' are falsy.
PhpTruthyStr(s) == s # "" /\ s # "0"

\* PHP truthiness of a decoded JSON value: null and the empty array are falsy.
PhpTruthyArr(t) == t # PhpNull /\ DOMAIN t # {}

\* PHP array_merge($t, $input): the keys of both, $input's value where both have one.
ArrayMerge(t, input) ==
  [f \in DOMAIN t \cup DOMAIN input |-> IF f \in DOMAIN input THEN input[f] ELSE t[f]]

\* ----------------------------------------------------------------- state
VARIABLES
  peers,     \* the Record Store variants run side by side through the same calls
  procs,     \* the requests in flight when requests overlap
  page,      \* the state of the page the browser shows
  boot,      \* the start of the process: its environment and how far startup got
  backend,   \* which server and Record Store variant this process runs
  now,       \* the clock read by Date.now() / time()
  tours,     \* the in-memory working set (MemoryPersistence.tours, localTours)
  disk,      \* tours.json
  docs,      \* the 'tours' collection of the managed document store
  uploads,   \* the blobs stored so far, in order: storage key and public URL
  storage,   \* which Blob Store variant this process runs
  last       \* the last request handled, its response and the store call it made

\* What the variables hold in a specification that does not use them.
NoPeers == [none |-> TRUE]
NoProcs == [none |-> TRUE]
NoPage == [none |-> TRUE]

vars == <<peers, procs, page, boot, backend, now, tours, disk, docs, uploads, storage, last>>

NodeBackends == {"NodeMemory", "NodeFile", "NodeFirestore"}
LegacyBackends == {"LegacyLocal", "LegacyCloud"}
PhpBackends == {"PhpLocal", "PhpFile"}
Backends == NodeBackends \cup LegacyBackends \cup PhpBackends

\* ------------------------------------------------------------ tours.json
\* JSON.stringify / json_encode of one object: its key-value pairs in order.
NullText == <<<<"null", "null">>>>

ObjText(t) ==
  LET present == SelectSeq(FieldOrder, LAMBDA f : f \in DOMAIN t)
  IN IF t = PhpNull THEN NullText
     ELSE [k \in 1..Len(present) |-> <<present[k], t[present[k]]>>]

\* JSON.parse / json_decode of one object.
ParseObj(o) ==
  IF o = NullText THEN PhpNull
  ELSE [f \in {o[k][1] : k \in 1..Len(o)} |->
          o[CHOOSE k \in 1..Len(o) : o[k][1] = f][2]]

\* JSON.stringify(this.tours, null, 2) / json_encode($tours, JSON_PRETTY_PRINT)
Stringify(ts) == [i \in 1..Len(ts) |-> ObjText(ts[i])]

JsonParse(text) == [i \in 1..Len(text) |-> ParseObj(text[i])]

DiskAbsent == [state |-> "absent"]
DiskCorrupt == [state |-> "corrupt"]
DiskJson(ts) == [state |-> "json", text |-> Stringify(ts)]

\* fs.writeFileSync(dataFile, JSON.stringify(tours, null, 2)): the whole document
\* is overwritten, or the write throws and the document is as it was.
WriteFile(d, ts, io) == IF io THEN DiskJson(ts) ELSE d

\* ------------------------------------------- Record Store: backend/server.js
Found(t) == [found |-> TRUE, tour |-> t]
NotFound == [found |-> FALSE]

\* this.tours.findIndex(t => t.id === tour.id), 1-based, 0 for -1
FindIndex(ts, tour) ==
  IF \E i \in 1..Len(ts) : IdOf(ts[i]) = IdOf(tour)
    THEN CHOOSE i \in 1..Len(ts) :
           /\ IdOf(ts[i]) = IdOf(tour)
           /\ \A j \in 1..(i - 1) : IdOf(ts[j]) # IdOf(tour)
    ELSE 0

\* MemoryPersistence.getTour: this.tours.find(t => t.id === id)
MemGetTour(ts, id) ==
  LET idx == FindIndex(ts, [id |-> id])
  IN IF idx > 0 THEN Found(ts[idx]) ELSE NotFound

\* Mutant: the tour is pushed without looking for a record to replace.
MemSaveTourPush(ts, tour) == Append(ts, tour)

\* Mutant: the record with the tour's id is filtered out and the tour pushed.
MemSaveTourMoveLast(ts, tour) ==
  Append(SelectSeq(ts, LAMBDA t : IdOf(t) # IdOf(tour)), tour)

\* MemoryPersistence.saveTour
MemSaveTour(ts, tour) ==
  LET index == FindIndex(ts, tour)
  IN IF index > 0 THEN [ts EXCEPT ![index] = tour] ELSE Append(ts, tour)

\* MemoryPersistence.deleteTour: this.tours.filter(t => t.id !== id)
MemDeleteTour(ts, id) == SelectSeq(ts, LAMBDA t : IdOf(t) # <<id>>)

\* Mutant: the constructor does not run _load().
FileLoadSkipped(d) == <<>>

\* FilePersistence._load: the document when it exists and parses, else what the
\* MemoryPersistence constructor left (the empty list).
FileLoad(d) == IF d.state = "json" THEN JsonParse(d.text) ELSE <<>>

\* Firestore's doc(id): the path must be a non-empty string, otherwise it throws.
\* It is read as a path below the collection: an identifier with a slash in it
\* has two segments and does not name a document of the collection.
SlashId == "a/b"
DocPathSegments(id) == IF id = SlashId THEN 2 ELSE 1

ValidDocId(t) ==
  IdOf(t) # <<>> /\ IdOf(t) # <<"">> /\ DocPathSegments(t["id"]) = 1

\* FirestorePersistence.getTour
FsGetTour(c, id) == IF id \in DOMAIN c THEN Found(c[id]) ELSE NotFound

\* collection.doc(tour.id).set(tour)
FsSet(c, tour) ==
  [i \in DOMAIN c \cup {tour["id"]} |-> IF i = tour["id"] THEN tour ELSE c[i]]

\* collection.doc(id).delete()
FsDelete(c, id) == [i \in DOMAIN c \ {id} |-> c[i]]

\* snapshot.docs.map(d => d.data()): the documents, ordered by document id.
IdRank(id) ==
  CASE id = "0" -> 0
    [] id = "a" -> 1
    [] OTHER -> 2 + (CHOOSE n \in 0..(MaxClock + 1) : GenId(n) = id)

RECURSIVE FsList(_)
FsList(c) ==
  IF DOMAIN c = {} THEN <<>>
  ELSE LET i == CHOOSE x \in DOMAIN c : \A y \in DOMAIN c : IdRank(x) <= IdRank(y)
       IN <<c[i]>> \o FsList(FsDelete(c, i))

\* The persistence object chosen at startup (server.js 213-218), as one
\* interface: each operation gives the state it leaves and what it returns.
\* ok = FALSE: the operation threw.
PersistGetTours ==
  CASE backend = "NodeFirestore" -> FsList(docs)
    [] OTHER -> tours

PersistGetTour(id) ==
  CASE backend = "NodeFirestore" -> FsGetTour(docs, id)
    [] OTHER -> MemGetTour(tours, id)

\* Mutant: FilePersistence writes the document before changing the working set.
PersistSaveTourWriteFirst(tour, io) ==
  CASE backend = "NodeMemory" ->
         [tours |-> MemSaveTour(tours, tour), disk |-> disk, docs |-> docs, ok |-> TRUE,
          ret |-> tour]
    [] backend = "NodeFile" ->
         [tours |-> MemSaveTour(tours, tour),
          disk |-> WriteFile(disk, tours, io),
          docs |-> docs, ok |-> io, ret |-> tour]
    [] OTHER ->
         IF ValidDocId(tour) /\ io
           THEN [tours |-> tours, disk |-> disk, docs |-> FsSet(docs, tour), ok |-> TRUE,
                 ret |-> tour]
           ELSE [tours |-> tours, disk |-> disk, docs |-> docs, ok |-> FALSE,
                 ret |-> tour]

\* MemoryPersistence.saveTour / FilePersistence.saveTour / FirestorePersistence.saveTour.
\* FilePersistence changes the working set first and writes the document after.
PersistSaveTour(tour, io) ==
  CASE backend = "NodeMemory" ->
         [tours |-> MemSaveTour(tours, tour), disk |-> disk, docs |-> docs, ok |-> TRUE,
          ret |-> tour]
    [] backend = "NodeFile" ->
         [tours |-> MemSaveTour(tours, tour),
          disk |-> WriteFile(disk, MemSaveTour(tours, tour), io),
          docs |-> docs, ok |-> io, ret |-> tour]
    [] OTHER ->
         IF ValidDocId(tour) /\ io
           THEN [tours |-> tours, disk |-> disk, docs |-> FsSet(docs, tour), ok |-> TRUE,
                 ret |-> tour]
           ELSE [tours |-> tours, disk |-> disk, docs |-> docs, ok |-> FALSE,
                 ret |-> tour]

PersistDeleteTour(id, io) ==
  CASE backend = "NodeMemory" ->
         [tours |-> MemDeleteTour(tours, id), disk |-> disk, docs |-> docs, ok |-> TRUE]
    [] backend = "NodeFile" ->
         [tours |-> MemDeleteTour(tours, id),
          disk |-> WriteFile(disk, MemDeleteTour(tours, id), io),
          docs |-> docs, ok |-> io]
    [] OTHER ->
         IF io
           THEN [tours |-> tours, disk |-> disk, docs |-> FsDelete(docs, id), ok |-> TRUE]
           ELSE [tours |-> tours, disk |-> disk, docs |-> docs, ok |-> FALSE]

\* ------------------------------------------------ responses and call records
TourBody(t) == [kind |-> "tour", tour |-> t]
ListBody(ts) == [kind |-> "list", tours |-> ts]
MessageBody(m) == [kind |-> "message", message |-> m]
ErrorBody(m) == [kind |-> "error", error |-> m]
EmptyBody == [kind |-> "empty"]

NoCall == [fn |-> "none"]
SaveCall(t, ok, ret) == [fn |-> "saveTour", tour |-> t, ok |-> ok, ret |-> ret]
DeleteCall(id, ok) == [fn |-> "deleteTour", id |-> id, ok |-> ok]
GetCall(id, r) == [fn |-> "getTour", id |-> id, ret |-> r]
ListCall(r) == [fn |-> "getTours", ret |-> r]

Request(op, id, body, status, rbody, call) ==
  [op |-> op, id |-> id, body |-> body, status |-> status, rbody |-> rbody, call |-> call]

WithinBounds ==
  /\ Len(tours') <= MaxTours
  /\ Cardinality(DOMAIN docs') <= MaxTours
  /\ (disk'.state = "json" => Len(disk'.text) <= MaxTours)

\* ------------------------------------------------- API routes: server.js
\* app.get('/api/tours')
NodeGetTours ==
  /\ backend \in NodeBackends
  /\ last' = Request("GET_LIST", "", NoBody, 200, ListBody(PersistGetTours),
                     ListCall(PersistGetTours))
  /\ UNCHANGED <<peers, procs, page, boot, backend, now, tours, disk, docs, uploads, storage>>

\* app.get('/api/tours/:id'): what it answers
NodeGetResponse(id) ==
  LET tour == PersistGetTour(id)
  IN IF tour.found
       THEN Request("GET", id, NoBody, 200, TourBody(tour.tour), GetCall(id, tour))
       ELSE Request("GET", id, NoBody, 404, MessageBody("Not found"), GetCall(id, tour))

NodeGetTour(id) ==
  /\ backend \in NodeBackends
  /\ last' = NodeGetResponse(id)
  /\ UNCHANGED <<peers, procs, page, boot, backend, now, tours, disk, docs, uploads, storage>>

\* app.use(express.json()): a body that does not parse never reaches the route;
\* the parser's error, whose status is 400, goes to the default error handler.
ExpressJsonRejects(op, id, body) ==
  /\ last' = Request(op, id, body, 400, ErrorBody("entity.parse.failed"), NoCall)
  /\ UNCHANGED <<tours, disk, docs>>

\* handleSave, mounted on POST /api/tours and on PUT /api/tours/:id
NodeHandleSave(op, id, body, io) ==
  /\ backend \in NodeBackends
  /\ IF body = BadJson
       THEN ExpressJsonRejects(op, id, body)
       ELSE LET tour == IF JsFalsyId(body) THEN WithId(body, GenId(now)) ELSE body
               r == PersistSaveTour(tour, io)
           IN /\ tours' = r.tours
              /\ disk' = r.disk
              /\ docs' = r.docs
              /\ last' = IF r.ok
                           THEN Request(op, id, body, 200, TourBody(tour),
                                        SaveCall(tour, TRUE, r.ret))
                           ELSE Request(op, id, body, 500, ErrorBody("e.message"),
                                        SaveCall(tour, FALSE, r.ret))
  /\ UNCHANGED <<peers, procs, page, boot, backend, now, uploads, storage>>
  /\ WithinBounds

NodePost(body, io) == NodeHandleSave("POST", "", body, io)

NodePut(id, body, io) == NodeHandleSave("PUT", id, body, io)

\* app.delete('/api/tours/:id')
NodeDelete(id, io) ==
  /\ backend \in NodeBackends
  /\ LET r == PersistDeleteTour(id, io)
     IN /\ tours' = r.tours
        /\ disk' = r.disk
        /\ docs' = r.docs
        /\ last' = IF r.ok
                     THEN Request("DELETE", id, NoBody, 204, EmptyBody, DeleteCall(id, TRUE))
                     ELSE Request("DELETE", id, NoBody, 500, ErrorBody("e.message"),
                                  DeleteCall(id, FALSE))
  /\ UNCHANGED <<peers, procs, page, boot, backend, now, uploads, storage>>

\* ------------------------- older Node server (services/geminiService.ts): DAL
\* DAL.getAllTours
DalGetAllTours ==
  IF backend = "LegacyCloud" THEN FsList(docs) ELSE tours

\* DAL.getTourById
DalGetTourById(id) ==
  IF backend = "LegacyCloud" THEN FsGetTour(docs, id) ELSE MemGetTour(tours, id)

\* Mutant: in local mode the tour is pushed whether or not a record has its id.
DalSaveTourPush(tour, io) ==
  IF backend = "LegacyCloud"
    THEN IF ValidDocId(tour) /\ io
           THEN [tours |-> tours, disk |-> disk, docs |-> FsSet(docs, tour), ok |-> TRUE,
                 ret |-> tour]
           ELSE [tours |-> tours, disk |-> disk, docs |-> docs, ok |-> FALSE,
                 ret |-> tour]
    ELSE [tours |-> Append(tours, tour), disk |-> WriteFile(disk, Append(tours, tour), io),
          docs |-> docs, ok |-> io, ret |-> tour]

\* DAL.saveTour: db.collection('tours').doc(tour.id).set(tour) when USE_CLOUD,
\* otherwise replace-or-push on localTours followed by saveLocalData().
DalSaveTour(tour, io) ==
  IF backend = "LegacyCloud"
    THEN IF ValidDocId(tour) /\ io
           THEN [tours |-> tours, disk |-> disk, docs |-> FsSet(docs, tour), ok |-> TRUE,
                 ret |-> tour]
           ELSE [tours |-> tours, disk |-> disk, docs |-> docs, ok |-> FALSE,
                 ret |-> tour]
    ELSE LET index == FindIndex(tours, tour)
             updated == IF index > 0 THEN [tours EXCEPT ![index] = tour]
                                     ELSE Append(tours, tour)
         IN [tours |-> updated, disk |-> WriteFile(disk, updated, io),
             docs |-> docs, ok |-> io, ret |-> tour]

\* Mutant: deleting an identifier that no record has is reported as an error.
DalDeleteTourStrict(id, io) ==
  IF backend = "LegacyCloud"
    THEN IF io /\ id \in DOMAIN docs
           THEN [tours |-> tours, disk |-> disk, docs |-> FsDelete(docs, id), ok |-> TRUE]
           ELSE [tours |-> tours, disk |-> disk, docs |-> docs, ok |-> FALSE]
    ELSE LET filtered == SelectSeq(tours, LAMBDA t : IdOf(t) # <<id>>)
         IN IF Len(filtered) # Len(tours)
              THEN [tours |-> filtered, disk |-> WriteFile(disk, filtered, io),
                    docs |-> docs, ok |-> io]
              ELSE [tours |-> filtered, disk |-> disk, docs |-> docs, ok |-> FALSE]

\* DAL.deleteTour: the document is rewritten only when a record was removed.
DalDeleteTour(id, io) ==
  IF backend = "LegacyCloud"
    THEN IF io
           THEN [tours |-> tours, disk |-> disk, docs |-> FsDelete(docs, id), ok |-> TRUE]
           ELSE [tours |-> tours, disk |-> disk, docs |-> docs, ok |-> FALSE]
    ELSE LET filtered == SelectSeq(tours, LAMBDA t : IdOf(t) # <<id>>)
         IN IF Len(filtered) # Len(tours)
              THEN [tours |-> filtered, disk |-> WriteFile(disk, filtered, io),
                    docs |-> docs, ok |-> io]
              ELSE [tours |-> filtered, disk |-> disk, docs |-> docs, ok |-> TRUE]

\* app.get('/api/tours')
LegacyGetTours ==
  /\ backend \in LegacyBackends
  /\ last' = Request("GET_LIST", "", NoBody, 200, ListBody(DalGetAllTours),
                     ListCall(DalGetAllTours))
  /\ UNCHANGED <<peers, procs, page, boot, backend, now, tours, disk, docs, uploads, storage>>

\* app.get('/api/tours/:id'): what it answers
LegacyGetResponse(id) ==
  LET tour == DalGetTourById(id)
  IN IF tour.found
       THEN Request("GET", id, NoBody, 200, TourBody(tour.tour), GetCall(id, tour))
       ELSE Request("GET", id, NoBody, 404, MessageBody("Not found"), GetCall(id, tour))

LegacyGetTour(id) ==
  /\ backend \in LegacyBackends
  /\ last' = LegacyGetResponse(id)
  /\ UNCHANGED <<peers, procs, page, boot, backend, now, tours, disk, docs, uploads, storage>>

\* app.post('/api/tours')
LegacyPost(body, io) ==
  /\ backend \in LegacyBackends
  /\ IF body = BadJson
       THEN ExpressJsonRejects("POST", "", body)
       ELSE LET tour == IF JsFalsyId(body) THEN WithId(body, GenId(now)) ELSE body
               r == DalSaveTour(tour, io)
           IN /\ tours' = r.tours
              /\ disk' = r.disk
              /\ docs' = r.docs
              /\ last' = IF r.ok
                           THEN Request("POST", "", body, 201, TourBody(tour),
                                        SaveCall(tour, TRUE, r.ret))
                           ELSE Request("POST", "", body, 500, ErrorBody("e.message"),
                                        SaveCall(tour, FALSE, r.ret))
  /\ UNCHANGED <<peers, procs, page, boot, backend, now, uploads, storage>>
  /\ WithinBounds

\* app.put('/api/tours/:id'): the body is saved as it came
LegacyPut(id, body, io) ==
  /\ backend \in LegacyBackends
  /\ IF body = BadJson
       THEN ExpressJsonRejects("PUT", id, body)
       ELSE LET r == DalSaveTour(body, io)
           IN /\ tours' = r.tours
              /\ disk' = r.disk
              /\ docs' = r.docs
              /\ last' = IF r.ok
                           THEN Request("PUT", id, body, 200, TourBody(body),
                                        SaveCall(body, TRUE, r.ret))
                           ELSE Request("PUT", id, body, 500, ErrorBody("e.message"),
                                        SaveCall(body, FALSE, r.ret))
  /\ UNCHANGED <<peers, procs, page, boot, backend, now, uploads, storage>>
  /\ WithinBounds

\* app.delete('/api/tours/:id')
LegacyDelete(id, io) ==
  /\ backend \in LegacyBackends
  /\ LET r == DalDeleteTour(id, io)
     IN /\ tours' = r.tours
        /\ disk' = r.disk
        /\ docs' = r.docs
        /\ last' = IF r.ok
                     THEN Request("DELETE", id, NoBody, 204, EmptyBody, DeleteCall(id, TRUE))
                     ELSE Request("DELETE", id, NoBody, 500, ErrorBody("e.message"),
                                  DeleteCall(id, FALSE))
  /\ UNCHANGED <<peers, procs, page, boot, backend, now, uploads, storage>>

\* ------------------------------------------- PHP server, local mode (part_000)
\* getTours() / FilePersistence::load: json_decode($content, true) ?: []
PhpLoad(d) == IF d.state = "json" THEN JsonParse(d.text) ELSE <<>>

\* saveTours($tours) / FilePersistence::save: file_put_contents returns false on
\* failure and nothing is thrown.
PhpSave(d, ts, io) == IF io THEN DiskJson(ts) ELSE d

\* foreach ($tours as $k => $t) if ($t['id'] === $id) ... break: the first match
PhpIndexOf(ts, id) == FindIndex(ts, [id |-> id])

\* case 'GET': what it answers
PhpLocalGetResponse(id) ==
  LET ts == PhpLoad(disk)
      k == PhpIndexOf(ts, id)
  IN IF PhpTruthyStr(id)
       THEN IF k > 0 /\ PhpTruthyArr(ts[k])
              THEN Request("GET", id, NoBody, 200, TourBody(ts[k]), NoCall)
              ELSE Request("GET", id, NoBody, 404, MessageBody("Not found"), NoCall)
       ELSE Request("GET", id, NoBody, 200, ListBody(ts), NoCall)

PhpLocalGet(id) ==
  /\ backend = "PhpLocal"
  /\ last' = PhpLocalGetResponse(id)
  /\ UNCHANGED <<peers, procs, page, boot, backend, now, tours, disk, docs, uploads, storage>>

\* GET /api/tours
PhpLocalGetTours ==
  /\ backend = "PhpLocal"
  /\ last' = Request("GET_LIST", "", NoBody, 200, ListBody(PhpLoad(disk)), NoCall)
  /\ UNCHANGED <<peers, procs, page, boot, backend, now, tours, disk, docs, uploads, storage>>

\* case 'POST'
PhpLocalPost(body, io) ==
  /\ backend = "PhpLocal"
  /\ LET ts == PhpLoad(disk)
         decoded == JsonDecode(body)
         input == IF "id" \in DOMAIN decoded THEN decoded
                                              ELSE WithId(decoded, GenId(now))
         k == FindIndex(ts, input)
         updated == IF k > 0 THEN [ts EXCEPT ![k] = input] ELSE Append(ts, input)
     IN IF ~PhpTruthyArr(decoded)
          THEN /\ last' = Request("POST", "", body, 400, ErrorBody("Invalid JSON"), NoCall)
               /\ disk' = disk
          ELSE /\ disk' = PhpSave(disk, updated, io)
               /\ last' = Request("POST", "", body, 201, TourBody(input), NoCall)
  /\ UNCHANGED <<peers, procs, page, boot, backend, now, tours, docs, uploads, storage>>
  /\ WithinBounds

\* array_merge($t, $input) when $input is null: PHP 8 throws a TypeError, which
\* nothing catches; PHP 7 warns and returns null.
ArrayMergeThrows(input, php8) == input = PhpNull /\ php8

\* case 'PUT'
PhpLocalPut(id, body, io) ==
  /\ backend = "PhpLocal"
  /\ \E php8 \in BOOLEAN :
       LET ts == PhpLoad(disk)
           k == PhpIndexOf(ts, id)
           input == JsonDecode(body)
           merged == IF input = PhpNull THEN PhpNull ELSE ArrayMerge(ts[k], input)
           updated == IF k > 0 THEN [ts EXCEPT ![k] = merged] ELSE Append(ts, input)
       IN IF ~PhpTruthyStr(id)
            THEN /\ last' = Request("PUT", id, body, 400, ErrorBody("ID required"), NoCall)
                 /\ disk' = disk
            ELSE IF k > 0 /\ ArrayMergeThrows(input, php8)
              THEN /\ last' = Request("PUT", id, body, 500, ErrorBody("TypeError"), NoCall)
                   /\ disk' = disk
              ELSE /\ disk' = PhpSave(disk, updated, io)
                   /\ last' = Request("PUT", id, body, 200, TourBody(input), NoCall)
  /\ UNCHANGED <<peers, procs, page, boot, backend, now, tours, docs, uploads, storage>>
  /\ WithinBounds

\* case 'DELETE'
PhpLocalDelete(id, io) ==
  /\ backend = "PhpLocal"
  /\ LET ts == PhpLoad(disk)
         newTours == SelectSeq(ts, LAMBDA t : IdOf(t) # <<id>>)
     IN IF ~PhpTruthyStr(id)
          THEN /\ last' = Request("DELETE", id, NoBody, 400, ErrorBody("ID required"), NoCall)
               /\ disk' = disk
          ELSE /\ disk' = PhpSave(disk, newTours, io)
               /\ last' = Request("DELETE", id, NoBody, 204, EmptyBody, NoCall)
  /\ UNCHANGED <<peers, procs, page, boot, backend, now, tours, docs, uploads, storage>>

\* --------------------------------------------- PHP server, modular (part_000)
\* FilePersistence::getTour
PhpGetTour(d, id) ==
  LET ts == PhpLoad(d)
      k == PhpIndexOf(ts, id)
  IN IF k > 0 THEN Found(ts[k]) ELSE NotFound

\* Mutant: the tour is appended without looking for a record to replace.
PhpSaveTourAppend(d, tour, io) ==
  [disk |-> PhpSave(d, Append(PhpLoad(d), tour), io), ret |-> tour]

\* FilePersistence::saveTour: load, replace or append, save
PhpSaveTour(d, tour, io) ==
  LET ts == PhpLoad(d)
      index == FindIndex(ts, tour)
  IN [disk |-> PhpSave(d, IF index > 0 THEN [ts EXCEPT ![index] = tour]
                                        ELSE Append(ts, tour), io),
      ret |-> tour]

\* FilePersistence::deleteTour
PhpDeleteTour(d, id, io) ==
  PhpSave(d, SelectSeq(PhpLoad(d), LAMBDA t : IdOf(t) # <<id>>), io)

\* $method === 'GET': what it answers
PhpGetResponse(id) ==
  LET tour == PhpGetTour(disk, id)
  IN IF PhpTruthyStr(id)
       THEN IF tour.found /\ PhpTruthyArr(tour.tour)
              THEN Request("GET", id, NoBody, 200, TourBody(tour.tour), GetCall(id, tour))
              ELSE Request("GET", id, NoBody, 404, MessageBody("Not found"),
                           GetCall(id, tour))
       ELSE Request("GET", id, NoBody, 200, ListBody(PhpLoad(disk)),
                    ListCall(PhpLoad(disk)))

PhpGet(id) ==
  /\ backend = "PhpFile"
  /\ last' = PhpGetResponse(id)
  /\ UNCHANGED <<peers, procs, page, boot, backend, now, tours, disk, docs, uploads, storage>>

\* GET /api/tours
PhpGetTours ==
  /\ backend = "PhpFile"
  /\ last' = Request("GET_LIST", "", NoBody, 200, ListBody(PhpLoad(disk)),
                     ListCall(PhpLoad(disk)))
  /\ UNCHANGED <<peers, procs, page, boot, backend, now, tours, disk, docs, uploads, storage>>

\* $method === 'POST'
PhpPost(body, io) ==
  /\ backend = "PhpFile"
  /\ LET decoded == JsonDecode(body)
         input == IF "id" \in DOMAIN decoded THEN decoded
                                              ELSE WithId(decoded, GenId(now))
         saved == PhpSaveTour(disk, input, io)
     IN IF ~PhpTruthyArr(decoded)
          THEN /\ last' = Request("POST", "", body, 500, ErrorBody("Invalid JSON"), NoCall)
               /\ disk' = disk
          ELSE /\ disk' = saved.disk
               /\ last' = Request("POST", "", body, 201, TourBody(saved.ret),
                                  SaveCall(input, TRUE, saved.ret))
  /\ UNCHANGED <<peers, procs, page, boot, backend, now, tours, docs, uploads, storage>>
  /\ WithinBounds

\* $method === 'PUT'
PhpPut(id, body, io) ==
  /\ backend = "PhpFile"
  /\ LET decoded == JsonDecode(body)
         input == WithId(IF decoded = PhpNull THEN <<>> ELSE decoded, id)
         saved == PhpSaveTour(disk, input, io)
     IN IF ~PhpTruthyStr(id)
          THEN /\ last' = Request("PUT", id, body, 500, ErrorBody("ID required"), NoCall)
               /\ disk' = disk
          ELSE /\ disk' = saved.disk
               /\ last' = Request("PUT", id, body, 200, TourBody(saved.ret),
                                  SaveCall(input, TRUE, saved.ret))
  /\ UNCHANGED <<peers, procs, page, boot, backend, now, tours, docs, uploads, storage>>
  /\ WithinBounds

\* $method === 'DELETE'
PhpDelete(id, io) ==
  /\ backend = "PhpFile"
  /\ IF ~PhpTruthyStr(id)
       THEN /\ last' = Request("DELETE", id, NoBody, 500, ErrorBody("ID required"), NoCall)
            /\ disk' = disk
       ELSE /\ disk' = PhpDeleteTour(disk, id, io)
            /\ last' = Request("DELETE", id, NoBody, 204, EmptyBody, DeleteCall(id, TRUE))
  /\ UNCHANGED <<peers, procs, page, boot, backend, now, tours, docs, uploads, storage>>

\* ----------------------------------------------------------- Blob Store
FileNames == {"a.jpg", "b.png"}
NoFile == [none |-> TRUE]
FilePart(name) == [originalname |-> name]

\* path.extname(file.originalname)
PathExtname(name) ==
  CASE name = "a.jpg" -> ".jpg"
    [] name = "b.png" -> ".png"

\* pathinfo($file['name'], PATHINFO_EXTENSION)
PhpExtension(name) ==
  CASE name = "a.jpg" -> "jpg"
    [] name = "b.png" -> "png"

\* Math.round(Math.random() * 1E9) / rand(1000, 9999): any value of the range
PhpRandMin == 1000
JsRandoms == 0..MaxRand
PhpRandoms == PhpRandMin..(PhpRandMin + MaxRand)

\* DiskStorage.getMulterStorage: the filename callback
DiskFilename(clock, rand, name) ==
  ToString(clock) \o "-" \o ToString(rand) \o PathExtname(name)

\* DiskStorage.getFileUrl
DiskFileUrl(filename) == "BASE_URL/uploads/" \o filename

\* GoogleCloudStorage.getFileUrl: this.bucket.file(Date.now() + '-' + file.originalname)
GcsBlobName(clock, name) == ToString(clock) \o "-" \o name

GcsPublicUrl(blobName) == "https://storage.googleapis.com/BUCKET_NAME/" \o blobName

\* DAL.uploadFile, local branch
LegacyLocalUrl(filename) == "http://localhost:PORT/uploads/" \o filename

\* DiskStorage::uploadFile / the local-mode upload route (PHP)
PhpFilename(clock, rand, name) ==
  ToString(clock) \o "-" \o ToString(rand) \o "." \o PhpExtension(name)

PhpUploadUrl(filename) == "uploadsUrl/" \o filename

Blob(key, url) == [key |-> key, url |-> url]
UrlBody(url) == [kind |-> "url", url |-> url]
UploadCall(fn, ok) == [fn |-> fn, ok |-> ok]
UploadBody(file) == IF file = NoFile THEN NoBody ELSE [file |-> file.originalname]

UploadRequest(file, status, rbody, call) ==
  Request("UPLOAD", "", UploadBody(file), status, rbody, call)

\* The storage mode a deployment of each backend runs by default.
DefaultStorage(b) == IF b \in {"NodeFirestore", "LegacyCloud"} THEN "GCS" ELSE "DISK"

\* app.post('/api/upload', upload.single('file'), ...) of server.js. With
\* DiskStorage multer has written the file under the generated name before the
\* handler runs; with GoogleCloudStorage the handler's getFileUrl writes the blob.
NodeUpload(file, rand, io) ==
  /\ backend \in NodeBackends
  /\ IF file = NoFile
       THEN /\ last' = UploadRequest(file, 400, MessageBody("No file uploaded"), NoCall)
            /\ uploads' = uploads
       ELSE IF storage = "DISK"
         THEN LET filename == DiskFilename(now, rand, file.originalname)
              IN IF io
                   THEN /\ uploads' = Append(uploads, Blob(filename, DiskFileUrl(filename)))
                        /\ last' = UploadRequest(file, 200, UrlBody(DiskFileUrl(filename)),
                                                  UploadCall("getFileUrl", TRUE))
                   ELSE /\ uploads' = uploads
                        /\ last' = UploadRequest(file, 500, ErrorBody("multer"), NoCall)
         ELSE LET name == GcsBlobName(now, file.originalname)
              IN IF io
                   THEN /\ uploads' = Append(uploads, Blob(name, GcsPublicUrl(name)))
                        /\ last' = UploadRequest(file, 200, UrlBody(GcsPublicUrl(name)),
                                                  UploadCall("getFileUrl", TRUE))
                   ELSE /\ uploads' = uploads
                        /\ last' = UploadRequest(file, 500, ErrorBody("Upload failed"),
                                                  UploadCall("getFileUrl", FALSE))
  /\ UNCHANGED <<peers, procs, page, boot, backend, now, tours, disk, docs, storage>>
  /\ Len(uploads') <= MaxUploads

\* app.post('/api/upload', ...) of the older Node server; DAL.uploadFile
LegacyUpload(file, rand, io) ==
  /\ backend \in LegacyBackends
  /\ IF file = NoFile
       THEN /\ last' = UploadRequest(file, 400, MessageBody("No file uploaded"), NoCall)
            /\ uploads' = uploads
       ELSE IF backend # "LegacyCloud"
         THEN LET filename == DiskFilename(now, rand, file.originalname)
              IN IF io
                   THEN /\ uploads' = Append(uploads, Blob(filename, LegacyLocalUrl(filename)))
                        /\ last' = UploadRequest(file, 200, UrlBody(LegacyLocalUrl(filename)),
                                                  UploadCall("uploadFile", TRUE))
                   ELSE /\ uploads' = uploads
                        /\ last' = UploadRequest(file, 500, ErrorBody("multer"), NoCall)
         ELSE LET name == GcsBlobName(now, file.originalname)
              IN IF io
                   THEN /\ uploads' = Append(uploads, Blob(name, GcsPublicUrl(name)))
                        /\ last' = UploadRequest(file, 200, UrlBody(GcsPublicUrl(name)),
                                                  UploadCall("uploadFile", TRUE))
                   ELSE /\ uploads' = uploads
                        /\ last' = UploadRequest(file, 500, ErrorBody("Upload failed"),
                                                  UploadCall("uploadFile", FALSE))
  /\ UNCHANGED <<peers, procs, page, boot, backend, now, tours, disk, docs, storage>>
  /\ Len(uploads') <= MaxUploads

\* Route /api/upload of the PHP server, local mode
PhpLocalUpload(file, rand, io) ==
  /\ backend = "PhpLocal"
  /\ IF file = NoFile
       THEN /\ last' = UploadRequest(file, 400, MessageBody("No file uploaded"), NoCall)
            /\ uploads' = uploads
       ELSE LET filename == PhpFilename(now, rand, file.originalname)
            IN IF io
                 THEN /\ uploads' = Append(uploads, Blob(filename, PhpUploadUrl(filename)))
                      /\ last' = UploadRequest(file, 200, UrlBody(PhpUploadUrl(filename)),
                                                UploadCall("move_uploaded_file", TRUE))
                 ELSE /\ uploads' = uploads
                      /\ last' = UploadRequest(file, 500, ErrorBody("Failed to save file"),
                                                UploadCall("move_uploaded_file", FALSE))
  /\ UNCHANGED <<peers, procs, page, boot, backend, now, tours, disk, docs, storage>>
  /\ Len(uploads') <= MaxUploads

\* Mutant: the route does not look for the file part and the store call fails.
PhpUploadUnchecked(file, rand, io) ==
  /\ backend = "PhpFile"
  /\ LET name == IF file = NoFile THEN "a.jpg" ELSE file.originalname
         filename == PhpFilename(now, rand, name)
     IN IF io /\ file # NoFile
          THEN /\ uploads' = Append(uploads, Blob(filename, PhpUploadUrl(filename)))
               /\ last' = UploadRequest(file, 200, UrlBody(PhpUploadUrl(filename)),
                                         UploadCall("uploadFile", TRUE))
          ELSE /\ uploads' = uploads
               /\ last' = UploadRequest(file, 500,
                                         ErrorBody("Failed to move uploaded file"),
                                         UploadCall("uploadFile", FALSE))
  /\ UNCHANGED <<peers, procs, page, boot, backend, now, tours, disk, docs, storage>>
  /\ Len(uploads') <= MaxUploads

\* Route /api/upload of the modular PHP server; DiskStorage::uploadFile
PhpUpload(file, rand, io) ==
  /\ backend = "PhpFile"
  /\ IF file = NoFile
       THEN /\ last' = UploadRequest(file, 400, MessageBody("No file uploaded"), NoCall)
            /\ uploads' = uploads
       ELSE LET filename == PhpFilename(now, rand, file.originalname)
            IN IF io
                 THEN /\ uploads' = Append(uploads, Blob(filename, PhpUploadUrl(filename)))
                      /\ last' = UploadRequest(file, 200, UrlBody(PhpUploadUrl(filename)),
                                                UploadCall("uploadFile", TRUE))
                 ELSE /\ uploads' = uploads
                      /\ last' = UploadRequest(file, 500,
                                                ErrorBody("Failed to move uploaded file"),
                                                UploadCall("uploadFile", FALSE))
  /\ UNCHANGED <<peers, procs, page, boot, backend, now, tours, disk, docs, storage>>
  /\ Len(uploads') <= MaxUploads

\* ------------------- browser store (services/geminiService.ts): LocalStorageService
\* The item 'geo_guide_tours' of localStorage is held in disk.
\* getTours: data ? JSON.parse(data) : []
LsGetTours(d) == IF d.state = "json" THEN JsonParse(d.text) ELSE <<>>

\* The tour initialize() seeds an empty localStorage with.
SeedTour == [id |-> "tour-1", title |-> "T1"]

\* initialize(): the seed is stored when the item is missing.
LsInitialize(d) == IF d.state = "absent" THEN DiskJson(<<SeedTour>>) ELSE d

\* The tours the editor hands to saveTour: a Tour always has an id.
EditorTours == {b \in Bodies : "id" \in DOMAIN b}

LsSaveCall(t, ok) == [fn |-> "LocalStorageService.saveTour", tour |-> t, ok |-> ok]
LsDeleteCall(id, ok) == [fn |-> "LocalStorageService.deleteTour", id |-> id, ok |-> ok]

\* saveTour: load, replace or push, setItem (which throws when the quota is exceeded)
LsSaveTour(tour, io) ==
  /\ backend = "BrowserLocal"
  /\ LET ts == LsGetTours(disk)
         index == FindIndex(ts, tour)
         updated == IF index > 0 THEN [ts EXCEPT ![index] = tour] ELSE Append(ts, tour)
     IN /\ disk' = WriteFile(disk, updated, io)
        /\ last' = Request("CALL", "", tour, 0, EmptyBody, LsSaveCall(tour, io))
  /\ UNCHANGED <<peers, procs, page, boot, backend, now, tours, docs, uploads, storage>>
  /\ WithinBounds

\* deleteTour: load, filter, setItem
LsDeleteTour(id, io) ==
  /\ backend = "BrowserLocal"
  /\ LET ts == LsGetTours(disk)
         filtered == SelectSeq(ts, LAMBDA t : IdOf(t) # <<id>>)
     IN /\ disk' = WriteFile(disk, filtered, io)
        /\ last' = Request("CALL", id, NoBody, 0, EmptyBody, LsDeleteCall(id, io))
  /\ UNCHANGED <<peers, procs, page, boot, backend, now, tours, docs, uploads, storage>>

\* ------------------------------------------------------ process and clock
\* A process whose startup has finished: app.listen() was reached.
Listening == [pc |-> "listening"]

FileBackends == {"NodeFile", "LegacyLocal"}

\* The working set a newly constructed store holds: FilePersistence's
\* constructor runs _load(); MemoryPersistence starts empty.
Startup(b, d) == IF b \in FileBackends THEN FileLoad(d) ELSE <<>>

\* The Node process is started again on the same disk and document store.
Restart ==
  /\ backend \in NodeBackends \cup LegacyBackends
  /\ last.op # "RESTART"
  /\ tours' = Startup(backend, disk)
  /\ last' = Request("RESTART", "", NoBody, 0, EmptyBody, NoCall)
  /\ UNCHANGED <<peers, procs, page, boot, backend, now, disk, docs, uploads, storage>>

\* Time passes between two requests.
Tick ==
  /\ now < MaxClock
  /\ now' = now + 1
  /\ UNCHANGED <<peers, procs, page, boot, backend, tours, disk, docs, uploads, storage, last>>

Init ==
  /\ peers = NoPeers
  /\ procs = NoProcs
  /\ page = NoPage
  /\ boot = Listening
  /\ backend \in Backends
  /\ now = 0
  /\ disk \in IF backend \in FileBackends \cup PhpBackends
                THEN {DiskAbsent, DiskCorrupt}
                ELSE {DiskAbsent}
  /\ tours = Startup(backend, disk)
  /\ docs = <<>>
  /\ uploads = <<>>
  /\ storage = DefaultStorage(backend)
  /\ last = Request("INIT", "", NoBody, 0, EmptyBody, NoCall)

Next ==
  \/ Tick
  \/ Restart
  \/ NodeGetTours
  \/ \E id \in PathIds : NodeGetTour(id)
  \/ \E body \in Bodies : NodePost(body, TRUE)
  \/ \E id \in ClientIds, body \in Bodies : NodePut(id, body, TRUE)
  \/ \E id \in PathIds : NodeDelete(id, TRUE)
  \/ LegacyGetTours
  \/ \E id \in PathIds : LegacyGetTour(id)
  \/ \E body \in Bodies : LegacyPost(body, TRUE)
  \/ \E id \in ClientIds, body \in Bodies : LegacyPut(id, body, TRUE)
  \/ \E id \in PathIds : LegacyDelete(id, TRUE)
  \/ PhpLocalGetTours
  \/ \E id \in PathIds : PhpLocalGet(id)
  \/ \E body \in Bodies : PhpLocalPost(body, TRUE)
  \/ \E id \in ClientIds, body \in Bodies : PhpLocalPut(id, body, TRUE)
  \/ \E id \in PathIds : PhpLocalDelete(id, TRUE)
  \/ PhpGetTours
  \/ \E id \in PathIds : PhpGet(id)
  \/ \E body \in Bodies : PhpPost(body, TRUE)
  \/ \E id \in ClientIds, body \in Bodies : PhpPut(id, body, TRUE)
  \/ \E id \in PathIds : PhpDelete(id, TRUE)

Spec == Init /\ [][Next]_vars

\* The tour routes when a write to the document or to the document store may
\* fail (disk full, tours.json not writable, the managed store unreachable).
NextFault ==
  \/ Tick
  \/ Restart
  \/ \E body \in Bodies, io \in BOOLEAN : NodePost(body, io)
  \/ \E id \in ClientIds, body \in Bodies, io \in BOOLEAN : NodePut(id, body, io)
  \/ \E id \in PathIds, io \in BOOLEAN : NodeDelete(id, io)
  \/ \E body \in Bodies, io \in BOOLEAN : LegacyPost(body, io)
  \/ \E id \in ClientIds, body \in Bodies, io \in BOOLEAN : LegacyPut(id, body, io)
  \/ \E id \in PathIds, io \in BOOLEAN : LegacyDelete(id, io)
  \/ \E body \in Bodies, io \in BOOLEAN : PhpLocalPost(body, io)
  \/ \E id \in ClientIds, body \in Bodies, io \in BOOLEAN : PhpLocalPut(id, body, io)
  \/ \E id \in PathIds, io \in BOOLEAN : PhpLocalDelete(id, io)
  \/ \E body \in Bodies, io \in BOOLEAN : PhpPost(body, io)
  \/ \E id \in ClientIds, body \in Bodies, io \in BOOLEAN : PhpPut(id, body, io)
  \/ \E id \in PathIds, io \in BOOLEAN : PhpDelete(id, io)

SpecFault == Init /\ [][NextFault]_vars

\* The save routes when the request body may fail to parse.
RawBodies == Bodies \cup {BadJson}

NextParse ==
  \/ Tick
  \/ \E body \in RawBodies : NodePost(body, TRUE)
  \/ \E id \in ClientIds, body \in RawBodies : NodePut(id, body, TRUE)
  \/ \E body \in RawBodies : LegacyPost(body, TRUE)
  \/ \E id \in ClientIds, body \in RawBodies : LegacyPut(id, body, TRUE)
  \/ \E body \in RawBodies : PhpLocalPost(body, TRUE)
  \/ \E id \in ClientIds, body \in RawBodies : PhpLocalPut(id, body, TRUE)
  \/ \E body \in RawBodies : PhpPost(body, TRUE)
  \/ \E id \in ClientIds, body \in RawBodies : PhpPut(id, body, TRUE)

SpecParse == Init /\ [][NextParse]_vars

\* The save routes on tours that carry an updatedAt the client has set.
NextStamp ==
  \/ Tick
  \/ \E body \in StampedBodies : NodePost(body, TRUE)
  \/ \E id \in ClientIds, body \in StampedBodies : NodePut(id, body, TRUE)
  \/ \E body \in StampedBodies : LegacyPost(body, TRUE)
  \/ \E id \in ClientIds, body \in StampedBodies : LegacyPut(id, body, TRUE)
  \/ \E body \in StampedBodies : PhpLocalPost(body, TRUE)
  \/ \E id \in ClientIds, body \in StampedBodies : PhpLocalPut(id, body, TRUE)
  \/ \E body \in StampedBodies : PhpPost(body, TRUE)
  \/ \E id \in ClientIds, body \in StampedBodies : PhpPut(id, body, TRUE)

SpecStamp == Init /\ [][NextStamp]_vars

\* The mutations of every list-backed store: the servers' save and delete
\* routes and the browser store's saveTour and deleteTour.
InitBrowser ==
  /\ peers = NoPeers
  /\ procs = NoProcs
  /\ page = NoPage
  /\ boot = Listening
  /\ backend = "BrowserLocal"
  /\ now = 0
  /\ disk = LsInitialize(DiskAbsent)
  /\ tours = <<>>
  /\ docs = <<>>
  /\ uploads = <<>>
  /\ storage = "DISK"
  /\ last = Request("INIT", "", NoBody, 0, EmptyBody, NoCall)

InitStore == Init \/ InitBrowser

NextStore ==
  \/ Tick
  \/ Restart
  \/ \E body \in Bodies : NodePost(body, TRUE)
  \/ \E id \in ClientIds, body \in Bodies : NodePut(id, body, TRUE)
  \/ \E id \in PathIds : NodeDelete(id, TRUE)
  \/ \E body \in Bodies : LegacyPost(body, TRUE)
  \/ \E id \in ClientIds, body \in Bodies : LegacyPut(id, body, TRUE)
  \/ \E id \in PathIds : LegacyDelete(id, TRUE)
  \/ \E body \in Bodies : PhpPost(body, TRUE)
  \/ \E id \in ClientIds, body \in Bodies : PhpPut(id, body, TRUE)
  \/ \E id \in PathIds : PhpDelete(id, TRUE)
  \/ \E tour \in EditorTours : LsSaveTour(tour, TRUE)
  \/ \E id \in PathIds : LsDeleteTour(id, TRUE)

SpecStore == InitStore /\ [][NextStore]_vars

\* The upload route alone, every Blob Store variant, writes that may fail.
InitBlob ==
  /\ peers = NoPeers
  /\ procs = NoProcs
  /\ page = NoPage
  /\ boot = Listening
  /\ backend \in Backends
  /\ now = 0
  /\ disk = DiskAbsent
  /\ tours = <<>>
  /\ docs = <<>>
  /\ uploads = <<>>
  /\ storage \in IF backend \in NodeBackends THEN {"DISK", "GCS"}
                  ELSE {DefaultStorage(backend)}
  /\ last = Request("INIT", "", NoBody, 0, EmptyBody, NoCall)

UploadFiles == {NoFile} \cup {FilePart(n) : n \in FileNames}

NextBlob ==
  \/ Tick
  \/ \E f \in UploadFiles, r \in JsRandoms, io \in BOOLEAN : NodeUpload(f, r, io)
  \/ \E f \in UploadFiles, r \in JsRandoms, io \in BOOLEAN : LegacyUpload(f, r, io)
  \/ \E f \in UploadFiles, r \in PhpRandoms, io \in BOOLEAN : PhpLocalUpload(f, r, io)
  \/ \E f \in UploadFiles, r \in PhpRandoms, io \in BOOLEAN : PhpUpload(f, r, io)

SpecBlob == InitBlob /\ [][NextBlob]_vars

\* ------------------------------------------------- startup: provider selection
\* process.env: a variable that is not set reads as undefined, which every use
\* below treats as it treats the empty string; "" stands for both.
EnvPersistenceModes == {"", "FILE", "MEMORY", "FIRESTORE", "file"}
EnvStorageModes == {"", "DISK", "GCS", "disk"}

Environments ==
  [GCP_PROJECT_ID : {"", "proj"},
   GCS_BUCKET_NAME : {"", "bucket"},
   PERSISTENCE_MODE : EnvPersistenceModes,
   STORAGE_MODE : EnvStorageModes,
   VERCEL : {"", "1"},
   AWS_LAMBDA_FUNCTION_NAME : {"", "fn"}]

\* JavaScript truthiness of a string, and a || b on strings.
JsTruthy(s) == s # ""
JsOr(a, b) == IF JsTruthy(a) THEN a ELSE b

\* let persistenceMode = process.env.PERSISTENCE_MODE || (PROJECT_ID ? 'FIRESTORE' : 'FILE')
ConfiguredPersistenceMode(env) ==
  JsOr(env.PERSISTENCE_MODE, IF JsTruthy(env.GCP_PROJECT_ID) THEN "FIRESTORE" ELSE "FILE")

\* let storageMode = process.env.STORAGE_MODE || (BUCKET_NAME ? 'GCS' : 'DISK')
ConfiguredStorageMode(env) ==
  JsOr(env.STORAGE_MODE, IF JsTruthy(env.GCS_BUCKET_NAME) THEN "GCS" ELSE "DISK")

\* process.env.VERCEL || process.env.AWS_LAMBDA_FUNCTION_NAME
Serverless(env) == JsTruthy(env.VERCEL) \/ JsTruthy(env.AWS_LAMBDA_FUNCTION_NAME)

\* if (serverless) { if (persistenceMode === 'FILE') persistenceMode = 'MEMORY'; }
ServerlessPersistenceMode(mode, env) ==
  IF Serverless(env) /\ mode = "FILE" THEN "MEMORY" ELSE mode

\* if (persistenceMode === 'FIRESTORE' || storageMode === 'GCS') require(...)
NeedsCloudLibraries(pm, sm) == pm = "FIRESTORE" \/ sm = "GCS"

\* switch (persistenceMode): the class that is constructed
PersistenceClass(pm) ==
  CASE pm = "FIRESTORE" -> "NodeFirestore"
    [] pm = "MEMORY" -> "NodeMemory"
    [] OTHER -> "NodeFile"

\* switch (storageMode): the class that is constructed
StorageClass(sm) == IF sm = "GCS" THEN "GCS" ELSE "DISK"

\* const USE_CLOUD = !!(PROJECT_ID && BUCKET_NAME && Firestore && Storage)
UseCloud(env, libs) ==
  JsTruthy(env.GCP_PROJECT_ID) /\ JsTruthy(env.GCS_BUCKET_NAME) /\ libs

Booting(server, env, libs, pc, pm, sm) ==
  [server |-> server, env |-> env, libs |-> libs, pc |-> pc,
   persistenceMode |-> pm, storageMode |-> sm]

\* server.js 32-37: the modes are read from the environment.
Configure ==
  /\ boot.pc = "start"
  /\ boot.server = "node"
  /\ boot' = [boot EXCEPT !.pc = "fallback",
                          !.persistenceMode = ConfiguredPersistenceMode(boot.env),
                          !.storageMode = ConfiguredStorageMode(boot.env)]
  /\ UNCHANGED <<peers, procs, page, backend, now, tours, disk, docs, uploads, storage, last>>

\* server.js 39-49: the serverless fallback.
ServerlessFallback ==
  /\ boot.pc = "fallback"
  /\ boot' = [boot EXCEPT !.pc = "require",
                          !.persistenceMode =
                            ServerlessPersistenceMode(boot.persistenceMode, boot.env)]
  /\ UNCHANGED <<peers, procs, page, backend, now, tours, disk, docs, uploads, storage, last>>

\* server.js 57-67: the cloud libraries are required when a mode needs them;
\* process.exit(1) when they are not installed.
LoadCloudLibraries ==
  /\ boot.pc = "require"
  /\ boot' = [boot EXCEPT !.pc =
                IF NeedsCloudLibraries(boot.persistenceMode, boot.storageMode) /\ ~boot.libs
                  THEN "exit"
                  ELSE "persistence"]
  /\ UNCHANGED <<peers, procs, page, backend, now, tours, disk, docs, uploads, storage, last>>

\* server.js 212-218: the Record Store is constructed.
InitPersistence ==
  /\ boot.pc = "persistence"
  /\ boot' = [boot EXCEPT !.pc = "storage"]
  /\ backend' = PersistenceClass(boot.persistenceMode)
  /\ tours' = Startup(backend', disk)
  /\ UNCHANGED <<peers, procs, page, now, disk, docs, uploads, storage, last>>

\* server.js 220-225: the Blob Store is constructed. storage.bucket(BUCKET_NAME)
\* is the client library's: given no name it may throw, which ends the process.
InitStorage ==
  /\ boot.pc = "storage"
  /\ \E thrown \in BOOLEAN :
       /\ thrown => (StorageClass(boot.storageMode) = "GCS"
                       /\ ~JsTruthy(boot.env.GCS_BUCKET_NAME))
       /\ boot' = [boot EXCEPT !.pc = IF thrown THEN "crash" ELSE "listening"]
       /\ storage' = IF thrown THEN storage ELSE StorageClass(boot.storageMode)
  /\ UNCHANGED <<peers, procs, page, backend, now, tours, disk, docs, uploads, last>>

\* services/geminiService.ts 312-401: the older server decides once, for both
\* stores, and falls back to local mode when a library or a variable is missing.
LegacyStart ==
  /\ boot.pc = "start"
  /\ boot.server = "legacy"
  /\ boot' = [boot EXCEPT !.pc = "listening"]
  /\ backend' = IF UseCloud(boot.env, boot.libs) THEN "LegacyCloud" ELSE "LegacyLocal"
  /\ storage' = IF UseCloud(boot.env, boot.libs) THEN "GCS" ELSE "DISK"
  /\ tours' = Startup(backend', disk)
  /\ UNCHANGED <<peers, procs, page, now, disk, docs, uploads, last>>

InitSelect ==
  /\ peers = NoPeers
  /\ procs = NoProcs
  /\ page = NoPage
  /\ boot \in {Booting(server, env, libs, "start", "", "") :
                 server \in {"node", "legacy"}, env \in Environments, libs \in BOOLEAN}
  /\ backend = "none"
  /\ storage = "none"
  /\ now = 0
  /\ disk \in {DiskAbsent, DiskCorrupt}
  /\ tours = <<>>
  /\ docs = <<>>
  /\ uploads = <<>>
  /\ last = Request("INIT", "", NoBody, 0, EmptyBody, NoCall)

NextSelect ==
  \/ Configure
  \/ ServerlessFallback
  \/ LoadCloudLibraries
  \/ InitPersistence
  \/ InitStorage
  \/ LegacyStart

SpecSelect == InitSelect /\ [][NextSelect]_vars

\* ------------------------- Record Store variants side by side (server.js 73-140)
\* One MemoryPersistence (tours), one FilePersistence (peers.file and disk) and
\* one FirestorePersistence (docs) receive the same calls; peers.res holds what
\* each of them returned to the last call.
Returned(v) == [threw |-> FALSE, value |-> v]
Threw == [threw |-> TRUE]
Void == [void |-> TRUE]

ToSet(ts) == {ts[i] : i \in 1..Len(ts)}

\* The tours handleSave passes to saveTour: tour.id is a truthy string, and one
\* of them carries an identifier with a slash in it.
StoreTours == EditorTours \cup {[id |-> SlashId]}
StoreIds == ClientIds \cup {SlashId}

Results(mem, file, fs) == [mem |-> mem, file |-> file, fs |-> fs]

SideBySideGetTours ==
  /\ peers' = [peers EXCEPT
       !.call = [fn |-> "getTours"],
       !.res = Results(Returned(ToSet(tours)), Returned(ToSet(peers.file)),
                       Returned(ToSet(FsList(docs))))]
  /\ UNCHANGED <<procs, page, boot, backend, now, tours, disk, docs, uploads, storage, last>>

SideBySideGetTour(id) ==
  /\ peers' = [peers EXCEPT
       !.call = [fn |-> "getTour", id |-> id],
       !.res = Results(Returned(MemGetTour(tours, id)),
                       Returned(MemGetTour(peers.file, id)),
                       IF DocPathSegments(id) = 1
                         THEN Returned(FsGetTour(docs, id)) ELSE Threw)]
  /\ UNCHANGED <<procs, page, boot, backend, now, tours, disk, docs, uploads, storage, last>>

SideBySideSaveTour(tour) ==
  /\ tours' = MemSaveTour(tours, tour)
  /\ disk' = WriteFile(disk, MemSaveTour(peers.file, tour), TRUE)
  /\ docs' = IF ValidDocId(tour) THEN FsSet(docs, tour) ELSE docs
  /\ peers' = [peers EXCEPT
       !.file = MemSaveTour(peers.file, tour),
       !.map = FsSet(peers.map, tour),
       !.call = [fn |-> "saveTour", tour |-> tour],
       !.res = Results(Returned(tour), Returned(tour),
                       IF ValidDocId(tour) THEN Returned(tour) ELSE Threw)]
  /\ UNCHANGED <<procs, page, boot, backend, now, uploads, storage, last>>

SideBySideDeleteTour(id) ==
  /\ tours' = MemDeleteTour(tours, id)
  /\ disk' = WriteFile(disk, MemDeleteTour(peers.file, id), TRUE)
  /\ docs' = IF DocPathSegments(id) = 1 THEN FsDelete(docs, id) ELSE docs
  /\ peers' = [peers EXCEPT
       !.file = MemDeleteTour(peers.file, id),
       !.map = FsDelete(peers.map, id),
       !.call = [fn |-> "deleteTour", id |-> id],
       !.res = Results(Returned(Void), Returned(Void),
                       IF DocPathSegments(id) = 1 THEN Returned(Void) ELSE Threw)]
  /\ UNCHANGED <<procs, page, boot, backend, now, uploads, storage, last>>

\* Every variant starts empty: no tours.json, no document in the collection.
InitSideBySide ==
  /\ peers = [file |-> <<>>, map |-> <<>>, call |-> [fn |-> "none"],
              res |-> Results(Returned(Void), Returned(Void), Returned(Void))]
  /\ procs = NoProcs
  /\ page = NoPage
  /\ boot = Listening
  /\ backend = "SideBySide"
  /\ now = 0
  /\ disk = DiskAbsent
  /\ tours = <<>>
  /\ docs = <<>>
  /\ uploads = <<>>
  /\ storage = "DISK"
  /\ last = Request("INIT", "", NoBody, 0, EmptyBody, NoCall)

NextSideBySide ==
  \/ SideBySideGetTours
  \/ \E id \in StoreIds : SideBySideGetTour(id)
  \/ \E tour \in StoreTours : SideBySideSaveTour(tour)
  \/ \E id \in StoreIds : SideBySideDeleteTour(id)

SpecSideBySide == InitSideBySide /\ [][NextSideBySide]_vars

\* --------------- managed-object-store upload, step by step (server.js 187-205)
\* procs holds the one upload call in flight: the promise it returned, the
\* write stream it opened and what the promise has yielded to its caller.
BufferedFiles == [originalname : FileNames, buffer : BOOLEAN]

UrlOutcome(url) == [kind |-> "url", url |-> url]
ErrorOutcome(m) == [kind |-> "error", error |-> m]

NoUpload ==
  [pc |-> "idle", file |-> NoFile, stream |-> "none", promise |-> "pending",
   yielded |-> <<>>, blob |-> ""]

\* resolve(v) / reject(e): the first of them settles the promise, later ones
\* do nothing.
Settle(p, state, outcome) ==
  IF p.promise = "pending"
    THEN [p EXCEPT !.promise = state, !.yielded = Append(@, outcome), !.pc = "settled"]
    ELSE p

\* blob.createWriteStream(...); the two handlers; blobStream.end(file.buffer)
StartStream(file) ==
  [pc |-> "streaming", file |-> file, stream |-> "writing", promise |-> "pending",
   yielded |-> <<>>, blob |-> GcsBlobName(now, file.originalname)]

\* GoogleCloudStorage.getFileUrl(req, file)
GcsGetFileUrl(file) ==
  /\ backend \in NodeBackends
  /\ storage = "GCS"
  /\ procs.pc \in {"idle", "settled"}
  /\ procs' = IF ~file.buffer
                THEN Settle([NoUpload EXCEPT !.file = file], "rejected",
                            ErrorOutcome("GCS Upload requires file buffer"))
                ELSE StartStream(file)
  /\ UNCHANGED <<peers, page, boot, backend, now, tours, disk, docs, uploads, storage, last>>

\* DAL.uploadFile(file), USE_CLOUD
DalUploadFileCloud(file) ==
  /\ backend = "LegacyCloud"
  /\ procs.pc \in {"idle", "settled"}
  /\ procs' = StartStream(file)
  /\ UNCHANGED <<peers, page, boot, backend, now, tours, disk, docs, uploads, storage, last>>

\* blobStream.on('finish', ...): the object is written; resolve(publicUrl)
BlobStreamFinish ==
  /\ procs.stream = "writing"
  /\ Len(uploads) < MaxUploads
  /\ uploads' = Append(uploads, Blob(procs.blob, GcsPublicUrl(procs.blob)))
  /\ procs' = Settle([procs EXCEPT !.stream = "finished"], "resolved",
                     UrlOutcome(GcsPublicUrl(procs.blob)))
  /\ UNCHANGED <<peers, page, boot, backend, now, tours, disk, docs, storage, last>>

\* blobStream.on('error', err => reject(err))
BlobStreamError ==
  /\ procs.stream = "writing"
  /\ procs' = Settle([procs EXCEPT !.stream = "errored"], "rejected",
                     ErrorOutcome("stream"))
  /\ UNCHANGED <<peers, page, boot, backend, now, tours, disk, docs, uploads, storage, last>>

StreamTick ==
  /\ now < MaxClock
  /\ now' = now + 1
  /\ UNCHANGED <<peers, procs, page, boot, backend, tours, disk, docs, uploads, storage, last>>

InitStream ==
  /\ peers = NoPeers
  /\ procs = NoUpload
  /\ page = NoPage
  /\ boot = Listening
  /\ backend \in NodeBackends \cup {"LegacyCloud"}
  /\ now = 0
  /\ disk = DiskAbsent
  /\ tours = <<>>
  /\ docs = <<>>
  /\ uploads = <<>>
  /\ storage = "GCS"
  /\ last = Request("INIT", "", NoBody, 0, EmptyBody, NoCall)

NextStream ==
  \/ StreamTick
  \/ \E file \in BufferedFiles : GcsGetFileUrl(file)
  \/ \E file \in BufferedFiles : DalUploadFileCloud(file)
  \/ BlobStreamFinish
  \/ BlobStreamError

SpecStream == InitStream /\ [][NextStream]_vars

\* ------------------- two overlapping saves (server.js 105-112, part_000 250-289)
\* procs.reqs holds the two saveTour calls in flight, procs.queue the
\* continuations waiting behind an await (run first in, first out), and
\* procs.flushed the calls in the order their write of tours.json completed.
Writers == {"A", "B"}

\* fopen($file, 'w') inside file_put_contents: the file exists and is empty.
DiskTruncated == [state |-> "empty"]

\* The document after a write of fewer bytes than it already held: the new
\* bytes followed by the rest of the old ones, which does not parse.
DiskTorn(size) == [state |-> "torn", size |-> size]

\* The size of a document, counted in records and fields.
RECURSIVE TextSize(_)
TextSize(text) ==
  IF Len(text) = 0 THEN 0 ELSE 1 + Len(Head(text)) + TextSize(Tail(text))

DiskSize(d) ==
  CASE d.state = "json" -> TextSize(d.text)
    [] d.state = "torn" -> d.size
    [] OTHER -> 0

\* write(fd, bytes) at offset 0 of a file opened earlier: bytes beyond the end
\* of what is written stay as they are.
WriteAtStart(d, ts) ==
  IF DiskSize(d) > TextSize(Stringify(ts)) THEN DiskTorn(DiskSize(d)) ELSE DiskJson(ts)

\* FilePersistence::saveTour between load() and save(): replace or append
PhpUpsert(ts, tour) ==
  LET index == FindIndex(ts, tour)
  IN IF index > 0 THEN [ts EXCEPT ![index] = tour] ELSE Append(ts, tour)

\* $tours = $this->load(); ... the request's own copy, changed
PhpReqLoad(w) ==
  /\ backend = "PhpFile"
  /\ procs.reqs[w].pc = "start"
  /\ procs' = [procs EXCEPT !.reqs[w].pc = "loaded",
                            !.reqs[w].copy = PhpUpsert(PhpLoad(disk), procs.reqs[w].tour)]
  /\ UNCHANGED <<peers, page, boot, backend, now, tours, disk, docs, uploads, storage, last>>

\* file_put_contents, no LOCK_EX: the file is opened for writing and truncated
PhpReqOpen(w) ==
  /\ backend = "PhpFile"
  /\ procs.reqs[w].pc = "loaded"
  /\ disk' = DiskTruncated
  /\ procs' = [procs EXCEPT !.reqs[w].pc = "opened"]
  /\ UNCHANGED <<peers, page, boot, backend, now, tours, docs, uploads, storage, last>>

\* file_put_contents: the encoded copy is written and the request ends
PhpReqWrite(w) ==
  /\ backend = "PhpFile"
  /\ procs.reqs[w].pc = "opened"
  /\ disk' = WriteAtStart(disk, procs.reqs[w].copy)
  /\ procs' = [procs EXCEPT !.reqs[w].pc = "done", !.flushed = Append(@, w)]
  /\ UNCHANGED <<peers, page, boot, backend, now, tours, docs, uploads, storage, last>>

\* FilePersistence.saveTour up to its await: super.saveTour(tour) has changed
\* this.tours, the rest of the method waits in the microtask queue.
NodeReqMutate(w) ==
  /\ backend = "NodeFile"
  /\ procs.reqs[w].pc = "start"
  /\ tours' = MemSaveTour(tours, procs.reqs[w].tour)
  /\ procs' = [procs EXCEPT !.reqs[w].pc = "awaiting", !.queue = Append(@, w)]
  /\ UNCHANGED <<peers, page, boot, backend, now, disk, docs, uploads, storage, last>>

\* The continuation at the head of the queue: this._save(); return tour
NodeReqFlush ==
  /\ backend = "NodeFile"
  /\ procs.queue # <<>>
  /\ LET w == Head(procs.queue)
     IN /\ disk' = WriteFile(disk, tours, TRUE)
        /\ procs' = [procs EXCEPT !.reqs[w].pc = "done", !.queue = Tail(@),
                                  !.flushed = Append(@, w)]
  /\ UNCHANGED <<peers, page, boot, backend, now, tours, docs, uploads, storage, last>>

InitRace ==
  /\ peers = NoPeers
  /\ procs \in [reqs : [Writers -> [pc : {"start"}, tour : EditorTours, copy : {<<>>}]],
                queue : {<<>>}, flushed : {<<>>}]
  /\ page = NoPage
  /\ boot = Listening
  /\ backend \in {"NodeFile", "PhpFile"}
  /\ now = 0
  /\ disk \in {DiskAbsent} \cup {DiskJson(<<t>>) : t \in EditorTours}
  /\ tours = Startup(backend, disk)
  /\ docs = <<>>
  /\ uploads = <<>>
  /\ storage = "DISK"
  /\ last = Request("INIT", "", NoBody, 0, EmptyBody, NoCall)

NextRace ==
  \/ \E w \in Writers : PhpReqLoad(w)
  \/ \E w \in Writers : PhpReqOpen(w)
  \/ \E w \in Writers : PhpReqWrite(w)
  \/ \E w \in Writers : NodeReqMutate(w)
  \/ NodeReqFlush

SpecRace == InitRace /\ [][NextRace]_vars

\* ----------------------------------- consumer page (pages/ConsumerPage.tsx 7-258)
\* page holds the component's state (activeTour, activeStopId, userLocation,
\* geoError, watchIdRef), whether it is mounted, and the browser's side of
\* navigator.geolocation: the watches that are active, the next watch id and
\* the getCurrentPosition requests not yet answered.
NoTour == "none"
Unset == "undefined"
NullRef == 0

\* The tours storageService.getTours() gave the page, with their stops' ids.
CatalogStops(tour) ==
  CASE tour = "t1" -> <<"s1", "s2">>
    [] tour = "t2" -> <<>>
    [] tour = "t3" -> <<"s3">>

Catalog == {"t1", "t2", "t3"}

StopIds(tour) == {CatalogStops(tour)[i] : i \in 1..Len(CatalogStops(tour))}

\* startLocationTracking(highAccuracy): the watch the ref names is cleared, a
\* new watch is started and the ref names it. Nothing in it looks at whether
\* the component is still mounted.
StartLocationTracking(p) ==
  [p EXCEPT !.watches = (@ \ {p.watchIdRef}) \cup {p.nextWatch},
            !.watchIdRef = p.nextWatch,
            !.nextWatch = @ + 1,
            !.geoError = IF p.mounted THEN "null" ELSE @]

\* useEffect(() => { ...; startLocationTracking(true); return cleanup }, [])
MountedPage ==
  StartLocationTracking(
    [mounted |-> TRUE, activeTour |-> NoTour, activeStopId |-> Unset,
     located |-> FALSE, geoError |-> "null", watchIdRef |-> NullRef,
     watches |-> {}, nextWatch |-> 1, retries |-> 0])

\* The success callback of watchPosition
WatchPositionArrives ==
  /\ page.watches # {}
  /\ page.mounted
  /\ page' = [page EXCEPT !.located = TRUE, !.geoError = "null"]
  /\ UNCHANGED <<peers, procs, boot, backend, now, tours, disk, docs, uploads, storage, last>>

GeoErrorMessage(code) ==
  CASE code = 1 -> "Permission Denied"
    [] code = 2 -> "Unavailable"
    [] code = 3 -> "Timeout"
    [] OTHER -> "Locating failed"

\* The error callback of watchPosition
WatchErrorArrives(code) ==
  /\ page.watches # {}
  /\ page.mounted
  /\ page' = [page EXCEPT !.geoError = GeoErrorMessage(code)]
  /\ UNCHANGED <<peers, procs, boot, backend, now, tours, disk, docs, uploads, storage, last>>

\* handleRetryLocation, up to the call of getCurrentPosition. The Retry button
\* is rendered in the active tour's view while geoError is set.
HandleRetryLocation ==
  /\ page.mounted
  /\ page.activeTour # NoTour
  /\ page.geoError # "null"
  /\ page.retries < MaxRetries
  /\ page.nextWatch + page.retries < MaxWatches
  /\ page' = [page EXCEPT !.geoError = "Requesting permission...", !.retries = @ + 1]
  /\ UNCHANGED <<peers, procs, boot, backend, now, tours, disk, docs, uploads, storage, last>>

\* getCurrentPosition's success callback: setUserLocation; startLocationTracking(true)
RetryPositionArrives ==
  /\ page.retries > 0
  /\ page' = StartLocationTracking(
               [page EXCEPT !.retries = @ - 1,
                            !.located = IF page.mounted THEN TRUE ELSE @])
  /\ UNCHANGED <<peers, procs, boot, backend, now, tours, disk, docs, uploads, storage, last>>

\* getCurrentPosition's error callback: startLocationTracking(false)
RetryErrorArrives ==
  /\ page.retries > 0
  /\ page' = StartLocationTracking([page EXCEPT !.retries = @ - 1])
  /\ UNCHANGED <<peers, procs, boot, backend, now, tours, disk, docs, uploads, storage, last>>

\* The effect's cleanup: clearWatch(watchIdRef.current) when the ref is set
Unmount ==
  /\ page.mounted
  /\ page' = [page EXCEPT !.mounted = FALSE, !.watches = @ \ {page.watchIdRef}]
  /\ UNCHANGED <<peers, procs, boot, backend, now, tours, disk, docs, uploads, storage, last>>

\* startTour(tour)
StartTour(tour) ==
  /\ page.mounted
  /\ page.activeTour = NoTour
  /\ page' = [page EXCEPT
       !.activeTour = tour,
       !.activeStopId = IF Len(CatalogStops(tour)) > 0 THEN CatalogStops(tour)[1] ELSE @]
  /\ UNCHANGED <<peers, procs, boot, backend, now, tours, disk, docs, uploads, storage, last>>

\* handleStopClick(id) from the map, setActiveStopId(stop.id) from the list:
\* both offer the stops of the active tour.
HandleStopClick(id) ==
  /\ page.mounted
  /\ page.activeTour # NoTour
  /\ id \in StopIds(page.activeTour)
  /\ page' = [page EXCEPT !.activeStopId = id]
  /\ UNCHANGED <<peers, procs, boot, backend, now, tours, disk, docs, uploads, storage, last>>

\* The Back button: setActiveTour(null)
BackToList ==
  /\ page.mounted
  /\ page.activeTour # NoTour
  /\ page' = [page EXCEPT !.activeTour = NoTour]
  /\ UNCHANGED <<peers, procs, boot, backend, now, tours, disk, docs, uploads, storage, last>>

InitConsumer ==
  /\ peers = NoPeers
  /\ procs = NoProcs
  /\ page = MountedPage
  /\ boot = Listening
  /\ backend = "BrowserLocal"
  /\ now = 0
  /\ disk = LsInitialize(DiskAbsent)
  /\ tours = <<>>
  /\ docs = <<>>
  /\ uploads = <<>>
  /\ storage = "DISK"
  /\ last = Request("INIT", "", NoBody, 0, EmptyBody, NoCall)

NextConsumer ==
  \/ WatchPositionArrives
  \/ \E code \in 0..3 : WatchErrorArrives(code)
  \/ HandleRetryLocation
  \/ RetryPositionArrives
  \/ RetryErrorArrives
  \/ Unmount
  \/ \E tour \in Catalog : StartTour(tour)
  \/ \E id \in UNION {StopIds(t) : t \in Catalog} : HandleStopClick(id)
  \/ BackToList

SpecConsumer == InitConsumer /\ [][NextConsumer]_vars

\* ------------------------------ tour editor (pages/ConsumerPage.tsx 270-777)
\* page holds CreatorPage's state (editingTour, isGenerating, uploadingState)
\* and the calls to uploadMedia and generateStopDetailsJSON still in flight.
\* Each call remembers the index it was started with, as its closure does, and
\* next to it which stop of which tour stood at that index then; page.settled
\* names the call that completed last.
NoEditing == [none |-> TRUE]

Stop(id) == [id |-> id, title |-> "Place", mediaUrl |-> "", description |-> ""]

\* The author's tours as the list shows them, by tour id.
SavedStops(tour) ==
  CASE tour = "e1" -> <<Stop("x1"), Stop("x2")>>
    [] tour = "e2" -> <<Stop("y1")>>

SavedTours == {"e1", "e2"}

\* A slot of the array that was never assigned, and { ...slot }.
UndefinedStop == [undefined |-> TRUE]
Spread(s) == IF s = UndefinedStop THEN <<>> ELSE s

StopIdOf(s) == IF "id" \in DOMAIN s THEN s.id ELSE Unset

\* { ...stop, ...updates }
MergeStop(s, updates) ==
  [f \in DOMAIN Spread(s) \cup DOMAIN updates |->
     IF f \in DOMAIN updates THEN updates[f] ELSE s[f]]

\* updatedStops[index] = ...: an index past the end grows the array, the slots
\* in between stay unassigned. Indexes count from 1 here.
AssignAt(stops, index, s) ==
  [i \in 1..(IF index > Len(stops) THEN index ELSE Len(stops)) |->
     IF i = index THEN s
     ELSE IF i <= Len(stops) THEN stops[i] ELSE UndefinedStop]

StopAt(stops, index) == IF index <= Len(stops) THEN stops[index] ELSE UndefinedStop

\* updateStop(index, updates), as the functional update of editingTour
UpdateStop(editing, index, updates) ==
  IF editing = NoEditing THEN NoEditing
  ELSE [editing EXCEPT !.stops =
          AssignAt(editing.stops, index, MergeStop(StopAt(editing.stops, index), updates))]

EditorIdle ==
  [editingTour |-> NoEditing, isGenerating |-> FALSE, uploadingState |-> {},
   calls |-> {}, started |-> 0, newStops |-> 0,
   settled |-> [n |-> 0, call |-> NoCall, ok |-> FALSE]]

\* handleCreateNew
HandleCreateNew ==
  /\ page.editingTour = NoEditing
  /\ page' = [page EXCEPT !.editingTour = [id |-> GenId(now), stops |-> <<>>]]
  /\ UNCHANGED <<peers, procs, boot, backend, now, tours, disk, docs, uploads, storage, last>>

\* The Edit button of a tour card: setEditingTour(tour)
EditTour(tour) ==
  /\ page.editingTour = NoEditing
  /\ page' = [page EXCEPT !.editingTour = [id |-> tour, stops |-> SavedStops(tour)]]
  /\ UNCHANGED <<peers, procs, boot, backend, now, tours, disk, docs, uploads, storage, last>>

\* The Cancel button: setEditingTour(null)
CancelEditing ==
  /\ page.editingTour # NoEditing
  /\ page' = [page EXCEPT !.editingTour = NoEditing]
  /\ UNCHANGED <<peers, procs, boot, backend, now, tours, disk, docs, uploads, storage, last>>

\* addStop
AddStop ==
  /\ page.editingTour # NoEditing
  /\ Len(page.editingTour.stops) < MaxStops
  /\ page.newStops < MaxStops
  /\ page' = [page EXCEPT
       !.editingTour.stops = Append(@, [Stop("stop-" \o ToString(page.newStops))
                                          EXCEPT !.title = "New Stop"]),
       !.newStops = @ + 1]
  /\ UNCHANGED <<peers, procs, boot, backend, now, tours, disk, docs, uploads, storage, last>>

\* prev.stops.filter((_, i) => i !== index)
FilterOutIndex(stops, index) ==
  [i \in 1..(Len(stops) - 1) |-> IF i < index THEN stops[i] ELSE stops[i + 1]]

\* removeStop(index)
RemoveStop(index) ==
  /\ page.editingTour # NoEditing
  /\ index \in 1..Len(page.editingTour.stops)
  /\ page' = [page EXCEPT !.editingTour.stops = FilterOutIndex(@, index)]
  /\ UNCHANGED <<peers, procs, boot, backend, now, tours, disk, docs, uploads, storage, last>>

EditorCall(kind, index) ==
  [fn |-> kind, index |-> index, n |-> page.started + 1,
   tour |-> page.editingTour.id,
   stop |-> StopIdOf(page.editingTour.stops[index])]

\* handleFileChange(e, index) up to its await; the input is disabled while
\* uploadingState[index] is set.
HandleFileChange(index) ==
  /\ page.editingTour # NoEditing
  /\ index \in 1..Len(page.editingTour.stops)
  /\ index \notin page.uploadingState
  /\ page.started < MaxCalls
  /\ page' = [page EXCEPT !.uploadingState = @ \cup {index},
                          !.calls = @ \cup {EditorCall("uploadMedia", index)},
                          !.started = @ + 1]
  /\ UNCHANGED <<peers, procs, boot, backend, now, tours, disk, docs, uploads, storage, last>>

\* handleMagicFill(index) up to its await; the button is disabled while
\* isGenerating is set, and a stop still titled 'New Stop' is turned away.
HandleMagicFill(index) ==
  /\ page.editingTour # NoEditing
  /\ index \in 1..Len(page.editingTour.stops)
  /\ ~page.isGenerating
  /\ "title" \in DOMAIN page.editingTour.stops[index]
  /\ page.editingTour.stops[index].title # "New Stop"
  /\ page.started < MaxCalls
  /\ page' = [page EXCEPT !.isGenerating = TRUE,
                          !.calls = @ \cup {EditorCall("generateStopDetailsJSON", index)},
                          !.started = @ + 1]
  /\ UNCHANGED <<peers, procs, boot, backend, now, tours, disk, docs, uploads, storage, last>>

CallUpdates(c) ==
  IF c.fn = "uploadMedia" THEN [mediaUrl |-> "url"] ELSE [description |-> "details"]

\* The rest of handleFileChange / handleMagicFill after the await: on success
\* updateStop(index, ...), and in either case the finally block.
CallSettles(n, ok) ==
  /\ \E c \in page.calls : c.n = n
  /\ LET c == CHOOSE c \in page.calls : c.n = n
     IN page' = [page EXCEPT
          !.editingTour = IF ok THEN UpdateStop(@, c.index, CallUpdates(c)) ELSE @,
          !.uploadingState = IF c.fn = "uploadMedia" THEN @ \ {c.index} ELSE @,
          !.isGenerating = IF c.fn = "uploadMedia" THEN @ ELSE FALSE,
          !.calls = @ \ {c},
          !.settled = [n |-> @.n + 1, call |-> c, ok |-> ok]]
  /\ UNCHANGED <<peers, procs, boot, backend, now, tours, disk, docs, uploads, storage, last>>

InitEditor ==
  /\ peers = NoPeers
  /\ procs = NoProcs
  /\ page = EditorIdle
  /\ boot = Listening
  /\ backend = "BrowserLocal"
  /\ now = 0
  /\ disk = LsInitialize(DiskAbsent)
  /\ tours = <<>>
  /\ docs = <<>>
  /\ uploads = <<>>
  /\ storage = "DISK"
  /\ last = Request("INIT", "", NoBody, 0, EmptyBody, NoCall)

NextEditor ==
  \/ HandleCreateNew
  \/ \E tour \in SavedTours : EditTour(tour)
  \/ CancelEditing
  \/ AddStop
  \/ \E index \in 1..MaxStops : RemoveStop(index)
  \/ \E index \in 1..MaxStops : HandleFileChange(index)
  \/ \E index \in 1..MaxStops : HandleMagicFill(index)
  \/ \E n \in 1..MaxCalls, ok \in BOOLEAN : CallSettles(n, ok)

SpecEditor == InitEditor /\ [][NextEditor]_vars

\* ------------------------------------------------- views used by the claims
MemoryBacked == {"NodeMemory", "NodeFile", "LegacyLocal"}
DocumentBacked == {"NodeFirestore", "LegacyCloud"}

\* The working set of the running Record Store, as its getTours returns it.
WorkingSet ==
  CASE backend \in MemoryBacked -> tours
    [] backend \in DocumentBacked -> FsList(docs)
    [] OTHER -> PhpLoad(disk)

\* getTour(id) of the running Record Store.
StoreGetTour(id) ==
  CASE backend \in NodeBackends -> PersistGetTour(id)
    [] backend \in LegacyBackends -> DalGetTourById(id)
    [] OTHER -> PhpGetTour(disk, id)

\* What GET /tours/{id} answers in the current state.
GetResponse(id) ==
  CASE backend \in NodeBackends -> NodeGetResponse(id)
    [] backend \in LegacyBackends -> LegacyGetResponse(id)
    [] backend = "PhpLocal" -> PhpLocalGetResponse(id)
    [] OTHER -> PhpGetResponse(id)

\* The positions of the records of ws whose identifier is that of t.
Holding(ws, t) == {i \in 1..Len(ws) : IdOf(ws[i]) = IdOf(t)}

\* The first record of ws whose identifier is id.
StoredUnder(ws, id) == ws[FindIndex(ws, [id |-> id])]

Saved == last.call.fn = "saveTour" /\ last.call.ok
Deleted == last.call.fn = "deleteTour" /\ last.call.ok

\* -------------------------------------------------------------------- C1
\* C1: right after a successful saveTour(T) of a tour T that has an identifier,
\* in every Record Store variant, getTour(T.id) finds a record equal to T, and
\* T is also what saveTour returned.
C1_RoundTrip ==
  (Saved /\ IdOf(last.call.tour) # <<>>) =>
    /\ StoreGetTour(last.call.tour["id"]) = Found(last.call.tour)
    /\ last.call.ret = last.call.tour

\* A save that replaced a record of a store holding two.
C1_Witness ==
  /\ Saved
  /\ IdOf(last.call.tour) # <<>>
  /\ Len(WorkingSet) = 2
  /\ WorkingSet[1] = last.call.tour
  /\ "title" \in DOMAIN last.call.tour

\* -------------------------------------------------------------------- C2
\* C2: saveTour(T) adds exactly one record when no record has T's identifier
\* and otherwise replaces that record in full, leaving exactly one record with
\* that identifier, equal to T; saving the same T again changes nothing.
C2_Upsert ==
  [][(last'.call.fn = "saveTour" /\ last'.call.ok) =>
       LET T == last'.call.tour
           pre == WorkingSet
           post == WorkingSet'
       IN /\ Len(post) = IF Holding(pre, T) = {} THEN Len(pre) + 1 ELSE Len(pre)
          /\ Cardinality(Holding(post, T)) = 1
          /\ \A i \in Holding(post, T) : post[i] = T
          /\ Cardinality({i \in 1..Len(post) : post[i] \notin {pre[j] : j \in 1..Len(pre)}}) <= 1
          /\ (Saved /\ last.call.tour = T =>
                /\ tours' = tours
                /\ disk' = disk
                /\ docs' = docs)]_vars

\* The same tour was saved again into a store that holds another record too.
C2_Witness ==
  /\ Saved
  /\ last.op = "PUT"
  /\ Len(WorkingSet) = 2
  /\ WorkingSet[2] = last.call.tour

C4_Durability ==
  (backend \in FileBackends /\ (Saved \/ Deleted)) => Startup(backend, disk) = tours

\* A file-backed store that holds two records after a save.
C4_Witness ==
  /\ backend \in FileBackends
  /\ Saved
  /\ Len(tours) = 2
  /\ disk.state = "json"

\* -------------------------------------------------------------------- C5
\* C5: any two uploads get different storage keys and different URLs, in every
\* Blob Store variant, also when both files have the same original name and
\* are handled at the same clock value.
C5_KeysNeverCollide ==
  \A i, j \in 1..Len(uploads) :
    i # j => uploads[i].key # uploads[j].key /\ uploads[i].url # uploads[j].url

\* -------------------------------------------------------------------- C6
\* C6: POST /tours with a body that has no identifier is answered 201 with a
\* tour whose id has the form tour-<digits>, and the tour is stored under that
\* id: GET /tours/{id} answers 200 with it.
GeneratedIds == {GenId(n) : n \in 0..MaxClock}

C6_PostAssignsId ==
  (last.op = "POST" /\ IdOf(last.body) = <<>>) =>
    /\ last.status = 201
    /\ last.rbody.kind = "tour"
    /\ IdOf(last.rbody.tour) # <<>>
    /\ last.rbody.tour["id"] \in GeneratedIds
    /\ GetResponse(last.rbody.tour["id"]).status = 200
    /\ GetResponse(last.rbody.tour["id"]).rbody = last.rbody

\* -------------------------------------------------------------------- C7
\* C7: GET /tours/{id} is answered 404 with {message: 'Not found'} when no
\* record has that identifier and 200 with the record when one has; the store
\* is as it was.
C7_GetByIdStatus ==
  [][(last'.op = "GET") =>
       /\ IF Holding(WorkingSet, [id |-> last'.id]) = {}
            THEN /\ last'.status = 404
                 /\ last'.rbody = MessageBody("Not found")
            ELSE /\ last'.status = 200
                 /\ last'.rbody.kind = "tour"
                 /\ \E i \in Holding(WorkingSet, [id |-> last'.id]) :
                      last'.rbody.tour = WorkingSet[i]
       /\ tours' = tours
       /\ disk' = disk
       /\ docs' = docs]_vars

\* -------------------------------------------------------------------- C8
\* C8: PUT /tours/{id} on an existing record stores, under {id}, the body's
\* value for every field the body carries and the previous value for every
\* other field, and answers 200 with that merged tour.
C8_PutMerges ==
  [][(last'.op = "PUT" /\ Holding(WorkingSet, [id |-> last'.id]) # {}) =>
       LET old == StoredUnder(WorkingSet, last'.id)
           merged == ArrayMerge(old, last'.body)
       IN /\ Holding(WorkingSet', [id |-> last'.id]) # {}
          /\ StoredUnder(WorkingSet', last'.id) = merged
          /\ last'.status = 200
          /\ last'.rbody = TourBody(merged)]_vars

\* -------------------------------------------------------------------- C9
\* C9: DELETE /tours/{id} is answered 204 whether or not a record had that
\* identifier, and GET /tours/{id} is answered 404 from then on, until a tour
\* with that identifier is saved again.
C9_DeleteThenNotFound ==
  (last.op = "DELETE") =>
    /\ last.status = 204
    /\ GetResponse(last.id).status = 404

\* ------------------------------------------------------------------- C10
\* C10: POST /upload without a file part is answered 400 with
\* {message: 'No file uploaded'}, the Blob Store is not called and no blob is
\* stored; with a file part and a blob stored it is answered 200 with the URL
\* of that blob.
C10_Upload ==
  [][(last'.op = "UPLOAD") =>
       IF last'.body = NoBody
         THEN /\ last'.status = 400
              /\ last'.rbody = MessageBody("No file uploaded")
              /\ last'.call = NoCall
              /\ uploads' = uploads
         ELSE (uploads' # uploads) =>
                /\ Len(uploads') = Len(uploads) + 1
                /\ last'.status = 200
                /\ last'.rbody = UrlBody(uploads'[Len(uploads')].url)]_vars

\* An upload without a file part, answered after a blob had been stored.
C10_Witness ==
  /\ last.op = "UPLOAD"
  /\ last.body = NoBody
  /\ last.status = 400
  /\ Len(uploads) = 1

\* ------------------------------------------------------------------- C11
\* C11: once startup has ended, with no mode override in the environment, the
\* Record Store is the managed document store when the project identifier is
\* set and the client library is installed; otherwise it is the file-backed
\* store, unless the runtime is serverless, and then it is the in-memory store.
StartupEnded == boot.pc \in {"listening", "exit", "crash"}

C11_RecordStoreSelection ==
  (/\ boot.server = "node"
   /\ StartupEnded
   /\ boot.env.PERSISTENCE_MODE = ""
   /\ boot.env.STORAGE_MODE = ""
   /\ boot.env.GCS_BUCKET_NAME = "") =>
    backend = IF JsTruthy(boot.env.GCP_PROJECT_ID) /\ boot.libs THEN "NodeFirestore"
              ELSE IF Serverless(boot.env) THEN "NodeMemory"
              ELSE "NodeFile"

\* ------------------------------------------------------------------- C12
\* C12: once startup has ended, whatever the environment and the STORAGE_MODE
\* override, the Blob Store is the managed object store only if the bucket
\* name is set and the client library is installed, and it is the disk store
\* in every other case.
C12_BlobStoreSelection ==
  StartupEnded =>
    /\ storage = "GCS" => (JsTruthy(boot.env.GCS_BUCKET_NAME) /\ boot.libs)
    /\ ~(JsTruthy(boot.env.GCS_BUCKET_NAME) /\ boot.libs) => storage = "DISK"

\* ------------------------------------------------------------------- C13
\* C13: in a serverless runtime the file-backed Record Store is never
\* constructed, whatever the PERSISTENCE_MODE override and the rest of the
\* environment.
C13_NoFileStoreWhenServerless ==
  (boot.server = "node" /\ Serverless(boot.env)) => backend # "NodeFile"

\* ------------------------------------------------------------------- C14
\* C14: a request during which the write of the Record Store fails is answered
\* 500 with an error message, never 2xx.
\* A step of a tour route whose write failed and that a successful write would
\* not have produced.
StoreWriteFailed ==
  \/ \E body \in Bodies : NodePost(body, FALSE) /\ ~NodePost(body, TRUE)
  \/ \E id \in ClientIds, body \in Bodies : NodePut(id, body, FALSE) /\ ~NodePut(id, body, TRUE)
  \/ \E id \in PathIds : NodeDelete(id, FALSE) /\ ~NodeDelete(id, TRUE)
  \/ \E body \in Bodies : LegacyPost(body, FALSE) /\ ~LegacyPost(body, TRUE)
  \/ \E id \in ClientIds, body \in Bodies :
       LegacyPut(id, body, FALSE) /\ ~LegacyPut(id, body, TRUE)
  \/ \E id \in PathIds : LegacyDelete(id, FALSE) /\ ~LegacyDelete(id, TRUE)
  \/ \E body \in Bodies : PhpLocalPost(body, FALSE) /\ ~PhpLocalPost(body, TRUE)
  \/ \E id \in ClientIds, body \in Bodies :
       PhpLocalPut(id, body, FALSE) /\ ~PhpLocalPut(id, body, TRUE)
  \/ \E id \in PathIds : PhpLocalDelete(id, FALSE) /\ ~PhpLocalDelete(id, TRUE)
  \/ \E body \in Bodies : PhpPost(body, FALSE) /\ ~PhpPost(body, TRUE)
  \/ \E id \in ClientIds, body \in Bodies : PhpPut(id, body, FALSE) /\ ~PhpPut(id, body, TRUE)
  \/ \E id \in PathIds : PhpDelete(id, FALSE) /\ ~PhpDelete(id, TRUE)

C14_StoreFailureIs500 ==
  [][StoreWriteFailed =>
       /\ last'.status = 500
       /\ last'.rbody.kind = "error"]_vars

\* ------------------------------------------------------------------- C15
\* C15: a POST /tours or PUT /tours/{id} whose body is not parsable JSON is
\* answered 400 and leaves the store as it was.
C15_BadJsonIs400 ==
  [][(last'.op \in {"POST", "PUT"} /\ last'.body = BadJson) =>
       /\ last'.status = 400
       /\ tours' = tours
       /\ disk' = disk
       /\ docs' = docs]_vars

\* ------------------------------------------------------------------- C16
\* C16: the identifier a POST /tours generates for a body without one is not
\* the identifier of any record already in the store, so the tour is stored as
\* a record of its own, also when an earlier POST was handled at the same
\* clock value. (A step that leaves the clock alone is a request.)
C16_GeneratedIdFresh ==
  [][(/\ now' = now
      /\ last'.op = "POST"
      /\ IdOf(last'.body) = <<>>
      /\ last'.rbody.kind = "tour") =>
       /\ Holding(WorkingSet, last'.rbody.tour) = {}
       /\ Len(WorkingSet') = Len(WorkingSet) + 1]_vars

\* ------------------------------------------------------------------- C17
\* C17: after a successful save the stored record's updatedAt is the time of
\* that save, whatever updatedAt the request carried.
C17_StoreStampsUpdatedAt ==
  [][(now' = now /\ last'.op \in {"POST", "PUT"} /\ last'.status \in {200, 201}) =>
       LET id == last'.rbody.tour["id"]
       IN /\ Holding(WorkingSet', [id |-> id]) # {}
          /\ StoredUnder(WorkingSet', id)["updatedAt"] = Stamp(now)]_vars

\* ------------------------------------------------------------------- C18
\* C18: PUT /tours/{id} changes or creates only the record whose identifier is
\* {id}: the records with any other identifier are, after the request, exactly
\* the ones before it, whatever id the body carries.
OtherRecords(ws, id) == SelectSeq(ws, LAMBDA t : IdOf(t) # <<id>>)

C18_PathIdIsTheKey ==
  [][(now' = now /\ last'.op = "PUT") =>
       OtherRecords(WorkingSet', last'.id) = OtherRecords(WorkingSet, last'.id)]_vars

\* ------------------------------------------------------------------- C19
\* C19: starting from an empty store, whatever saveTour and deleteTour calls
\* were made, the working set of the in-memory and the file-backed Record
\* Stores never holds two records with the same identifier.
ListBacked == MemoryBacked \cup {"PhpFile"}

C19_UniqueIds ==
  backend \in ListBacked =>
    \A i, j \in 1..Len(WorkingSet) :
      i # j => IdOf(WorkingSet[i]) # IdOf(WorkingSet[j])

\* A store of two records right after a PUT saved a tour under an identifier
\* the store already held: the tour took the place of the first record.
C19_Witness ==
  /\ backend \in ListBacked
  /\ Saved
  /\ Len(WorkingSet) = 2
  /\ WorkingSet[1] = last.call.tour
  /\ last.op = "PUT"
  /\ IdOf(WorkingSet[2]) # IdOf(WorkingSet[1])

\* ------------------------------------------------------------------- C20
\* C20: whatever POST /tours and PUT /tours/{id} requests were handled, every
\* record in the store has an identifier, and it is not the empty string.
C20_EveryRecordHasId ==
  \A i \in 1..Len(WorkingSet) :
    IdOf(WorkingSet[i]) # <<>> /\ IdOf(WorkingSet[i]) # <<"">>

\* ------------------------------------------------------------------- C21
\* C21: in the in-memory and file-backed stores, saveTour(T) leaves every
\* record with another identifier as it was and in the same relative order: a
\* replaced record keeps its position and a new record comes last;
\* deleteTour(id) removes only the records with that identifier and keeps the
\* others and their order.
Besides(ws, T) == SelectSeq(ws, LAMBDA t : IdOf(t) # IdOf(T))

FramedStores == ListBacked \cup {"BrowserLocal"}

SaveCalls == {"saveTour", "LocalStorageService.saveTour"}
DeleteCalls == {"deleteTour", "LocalStorageService.deleteTour"}

SavedNotDeleted == {peers.map[i] : i \in DOMAIN peers.map}

C22_VariantsAgree ==
  /\ peers.res.mem = peers.res.file
  /\ peers.res.file = peers.res.fs
  /\ ToSet(tours) = SavedNotDeleted
  /\ ToSet(peers.file) = SavedNotDeleted
  /\ ToSet(FsList(docs)) = SavedNotDeleted
  /\ FileLoad(disk) = peers.file

\* ------------------------------------------------------------------- C23
\* C23: a file-backed store that has just started holds the content of
\* tours.json when the document exists and parses, and the empty list when the
\* document is missing or does not parse; startup goes through either way, and
\* as long as the document is missing or unparsable getTours answers with the
\* empty list.
DocumentContent == IF disk.state = "json" THEN JsonParse(disk.text) ELSE <<>>

JustStarted == last.op \in {"INIT", "RESTART"}

C23_FileStartup ==
  /\ (backend \in FileBackends /\ JustStarted) =>
       /\ boot = Listening
       /\ tours = DocumentContent
  /\ (backend \in FileBackends \cup {"PhpFile"} /\ last.op = "GET_LIST") =>
       /\ last.status = 200
       /\ last.rbody = ListBody(DocumentContent)

\* The file-backed store was started on a document that holds two tours.
C23_Witness ==
  /\ backend = "NodeFile"
  /\ last.op = "RESTART"
  /\ disk.state = "json"
  /\ Len(tours) = 2

\* The store started on an unparsable document and answered getTours.
C23_WitnessCorrupt ==
  /\ backend \in FileBackends \cup {"PhpFile"}
  /\ disk = DiskCorrupt
  /\ last.op = "GET_LIST"
  /\ last.rbody = ListBody(<<>>)

\* ------------------------------------------------------------------- C24
\* C24: an upload to the managed object store yields at most one outcome while
\* it runs and exactly one once it has settled, a URL or an error; a URL is
\* yielded only when the write stream has signalled finish; after a stream
\* error the outcome is an error and no URL; for a file without a buffer the
\* outcome is an error and no write stream was opened.
YieldedUrl == \E i \in 1..Len(procs.yielded) : procs.yielded[i].kind = "url"
YieldedOnlyError == Len(procs.yielded) = 1 /\ procs.yielded[1].kind = "error"

BothFinished == \A w \in Writers : procs.reqs[w].pc = "done"

SameIdentifier == IdOf(procs.reqs["A"].tour) = IdOf(procs.reqs["B"].tour)

LastWriter == procs.flushed[Len(procs.flushed)]

HoldsUnder(ws, tour) ==
  /\ Holding(ws, tour) # {}
  /\ \A i \in Holding(ws, tour) : ws[i] = tour

C25_LastWriterWins ==
  (BothFinished /\ SameIdentifier) =>
     /\ disk.state = "json"
     /\ HoldsUnder(JsonParse(disk.text), procs.reqs[LastWriter].tour)
     /\ backend = "NodeFile" => HoldsUnder(tours, procs.reqs[LastWriter].tour)

\* ------------------------------------------------------------------- C27
\* C27: in the PHP backend, once two overlapping saves of tours with different
\* identifiers have both finished, whatever the interleaving of their loads
\* and writes, the document holds both tours.
C27_NoLostUpdate ==
  (backend = "PhpFile" /\ BothFinished /\ ~SameIdentifier) =>
     \A w \in Writers : HoldsUnder(PhpLoad(disk), procs.reqs[w].tour)

\* ------------------------------------------------------------------- C26
\* C26: in the file-backed store, a saveTour or deleteTour whose write of
\* tours.json fails (the request is answered 500) leaves the working set in
\* memory as it was before the call.
FileWriteFailed ==
  /\ now' = now
  /\ last'.status = 500
  /\ last'.call.fn \in {"saveTour", "deleteTour"}
  /\ ~last'.call.ok

C26_FailedWriteLeavesMemory ==
  [][(backend \in FileBackends /\ FileWriteFailed) => tours' = tours]_vars

\* ------------------------------------------------------------------- C29
\* C29: at most one geolocation watch is active at any time, and when the page
\* is unmounted none is, also after the position or error callback of a
\* location retry has arrived.
C29_OneWatchNoneAfterUnmount ==
  /\ Cardinality(page.watches) <= 1
  /\ ~page.mounted => page.watches = {}

\* ------------------------------------------------------------------- C30
\* C30: whenever a tour is active on the consumer page, the active stop
\* identifier is unset or the identifier of one of that tour's stops.
C30_ActiveStopOfActiveTour ==
  page.activeTour # NoTour =>
    page.activeStopId = Unset \/ page.activeStopId \in StopIds(page.activeTour)

\* ------------------------------------------------------------------- C28
\* C28: when an upload or an AI fill started for a stop completes, the tour
\* being edited changes in nothing but that stop: the stop list keeps its
\* length, the stop the call was started for (if the tour it belongs to is
\* being edited and still has it) takes the result, and every other entry is
\* as it was; with no tour being edited nothing changes.
C28_ResultGoesToItsStop ==
  [][(page'.settled.n # page.settled.n /\ page'.settled.ok) =>
       LET c == page'.settled.call
           pre == page.editingTour
           post == page'.editingTour
       IN IF pre = NoEditing THEN post = NoEditing
          ELSE /\ post # NoEditing
               /\ post.id = pre.id
               /\ Len(post.stops) = Len(pre.stops)
               /\ \A i \in 1..Len(pre.stops) :
                    post.stops[i] =
                      IF pre.id = c.tour /\ StopIdOf(pre.stops[i]) = c.stop
                        THEN MergeStop(pre.stops[i], CallUpdates(c))
                        ELSE pre.stops[i]]_vars

====
